---- MODULE Spec2Model ----
(***************************************************************************)
(* Campus assets backend: the resource store, the departments collection   *)
(* and the request handlers of resources.py that read and write them.      *)
(* Every store access of a handler (find, insert_one, update_one,          *)
(* delete_one, aggregate) is one atomic step; a handler is a sequence of   *)
(* such steps run by one request worker.                                   *)
(***************************************************************************)
EXTENDS Integers, Sequences, FiniteSets, TLC

\* ------------------------------------------------------------------------
\* Bounds of the model
\* ------------------------------------------------------------------------
MaxId == 2          \* ObjectIds the resources collection hands out in one run
MaxQty == 2         \* largest quantity a request carries

Workers == {"w1", "w2"}     \* concurrent request workers

PredefinedDepartments == <<"Architecture">>
DepartmentNames == {"Architecture", "Robotics"}
LocationNames == {"Lab-A", "Lab-B"}
DeviceNames == {"Chair"}
Costs == {5}

\* ------------------------------------------------------------------------
\* Request payloads (JSON bodies).  A key that is missing or null is absent
\* from the record; a quantity is the raw JSON value, a number or a string.
\* ------------------------------------------------------------------------
IntVal(n) == [int |-> n]
StrVal(s) == [str |-> s]
\* a JSON number with a fractional part, n its integer part (n.5)
FloatVal(n) == [float |-> n]
\* a JSON array
ListVal == [list |-> <<>>]

Digits == <<"0", "1", "2", "3", "4", "5", "6", "7", "8", "9">>

Has(data, k) == k \in DOMAIN data

Truthy(data, k) == Has(data, k) /\ data[k] # ""

\* int(x): an integer converts to itself, a number with a fractional part is
\* truncated, a decimal string converts to its value, any other string raises
\* ValueError and an array raises TypeError.
ParseInt(raw) ==
    IF Has(raw, "int") THEN [ok |-> TRUE, v |-> raw.int]
    ELSE IF Has(raw, "float") THEN [ok |-> TRUE, v |-> raw.float]
    ELSE IF Has(raw, "list") THEN [ok |-> FALSE, raises |-> "TypeError"]
    ELSE IF \E d \in 1..10 : Digits[d] = raw.str
         THEN [ok |-> TRUE, v |-> (CHOOSE d \in 1..10 : Digits[d] = raw.str) - 1]
         ELSE [ok |-> FALSE, raises |-> "ValueError"]

\* ------------------------------------------------------------------------
\* Store primitives
\* ------------------------------------------------------------------------
Matches(doc, criteria) == \A k \in DOMAIN criteria : doc[k] = criteria[k]

find(coll, criteria) == SelectSeq(coll, LAMBDA doc : Matches(doc, criteria))

RECURSIVE InsertBySlNo(_, _)
InsertBySlNo(sorted, doc) ==
    IF sorted = <<>> THEN <<doc>>
    ELSE IF doc.sl_no < Head(sorted).sl_no THEN <<doc>> \o sorted
    ELSE <<Head(sorted)>> \o InsertBySlNo(Tail(sorted), doc)

RECURSIVE SortBySlNo(_)
SortBySlNo(docs) ==
    IF docs = <<>> THEN <<>>
    ELSE InsertBySlNo(SortBySlNo(SubSeq(docs, 1, Len(docs) - 1)), docs[Len(docs)])

RECURSIVE delete_one(_, _)
delete_one(coll, id) ==
    IF coll = <<>> THEN <<>>
    ELSE IF Head(coll).id = id THEN Tail(coll)
    ELSE <<Head(coll)>> \o delete_one(Tail(coll), id)

RECURSIVE SumQuantity(_)
SumQuantity(docs) ==
    IF docs = <<>> THEN 0 ELSE Head(docs).quantity + SumQuantity(Tail(docs))

RECURSIVE SumValue(_)
SumValue(docs) ==
    IF docs = <<>> THEN 0
    ELSE Head(docs).cost * Head(docs).quantity + SumValue(Tail(docs))

HasId(coll, id) == \E i \in 1..Len(coll) : coll[i].id = id

FirstIndex(coll, name) == CHOOSE i \in 1..Len(coll) :
    coll[i].name = name /\ \A j \in 1..(i - 1) : coll[j].name # name

HasName(coll, name) == \E i \in 1..Len(coll) : coll[i].name = name

\* ------------------------------------------------------------------------
\* State
\* ------------------------------------------------------------------------
\* last_sl_no records the sl_no stored by the latest creation (0 before the
\* first); no handler reads it, it is kept to state properties of a whole run
VARIABLES resources, departments, nextId, pc, local, response, users, current_user, last_sl_no

vars == <<resources, departments, nextId, pc, local, response, users, current_user, last_sl_no>>

Idle == [op |-> "idle"]
NoResponse == [op |-> "none"]
\* a request context on which request.current_user is not set
NoUser == [uid |-> "none"]

\* the accounts of the users collection: an approved administrator, a
\* viewer, an administrator awaiting approval and a suspended one
RegisteredUsers ==
    <<[id |-> 1, uid |-> "root", role |-> "admin", status |-> "active"],
      [id |-> 2, uid |-> "guest", role |-> "viewer", status |-> "active"],
      [id |-> 3, uid |-> "newcomer", role |-> "admin", status |-> "pending"],
      [id |-> 4, uid |-> "former", role |-> "admin", status |-> "suspended"]>>

create_department_document(name) ==
    [name |-> name, locations |-> {}, resource_count |-> 0, total_cost |-> 0]

initialize_departments ==
    [i \in 1..Len(PredefinedDepartments) |->
        create_department_document(PredefinedDepartments[i])]

Init ==
    /\ resources = <<>>
    /\ departments = initialize_departments
    /\ nextId = 1
    /\ pc = [w \in Workers |-> "idle"]
    /\ local = [w \in Workers |-> Idle]
    /\ response = NoResponse
    /\ users = RegisteredUsers
    /\ current_user = [w \in Workers |-> NoUser]
    /\ last_sl_no = 0

Respond(w, r) ==
    /\ response' = r
    /\ pc' = [pc EXCEPT ![w] = "idle"]
    /\ local' = [local EXCEPT ![w] = Idle]
    /\ UNCHANGED <<users, current_user, last_sl_no>>

Goto(w, label, loc) ==
    /\ response' = NoResponse
    /\ pc' = [pc EXCEPT ![w] = label]
    /\ local' = [local EXCEPT ![w] = loc]
    /\ UNCHANGED <<users, current_user, last_sl_no>>

\* A worker takes a request off the wire and enters its handler.  The
\* resources collection hands out MaxId ObjectIds: a creation is accepted
\* only while one is left for it.
FirstStep(op) ==
    CASE op = "preview" -> "preview_deletion"
      [] op = "execute" -> "execute_find"
      [] op = "delete_by_criteria" -> "criteria_find"
      [] op = "delete" -> "delete_find"
      [] op = "create" -> "create_validate"
      [] op = "update" -> "update_find"
      [] op = "search" -> "search_count"
      [] op = "approve_admin" -> "approve_find"
      [] op = "get" -> "get_resource"
      [] op = "create_department" -> "department_find"
      [] op = "filter_options" -> "filter_departments"
      [] op = "departments_for_deletion" -> "deletion_departments"
      [] op = "locations_for_deletion" -> "deletion_locations"
      [] op = "locations_for_department" -> "filter_locations"
      [] op = "devices_for_deletion" -> "deletion_devices"

CreatesInFlight ==
    Cardinality({v \in Workers : local[v].op = "create" /\ pc[v] # "stats_aggregate"
                                                         /\ pc[v] # "stats_write"})

receive(w, request) ==
    /\ pc[w] = "idle"
    /\ request.op = "create" => nextId + CreatesInFlight <= MaxId
    /\ Goto(w, FirstStep(request.op), request)
    /\ UNCHANGED <<resources, departments, nextId>>

\* ------------------------------------------------------------------------
\* require_auth / require_role (auth.py) and POST /approve-admin
\* ------------------------------------------------------------------------
\* The Authorization header of a request: absent, of another scheme, a
\* Bearer token that jwt.decode rejects, or a Bearer token that decodes to a
\* payload carrying a uid.
NoHeader == [scheme |-> "none"]
BasicHeader == [scheme |-> "Basic"]
BadToken == [scheme |-> "Bearer", valid |-> FALSE]
TokenOf(uid) == [scheme |-> "Bearer", valid |-> TRUE, uid |-> uid]

\* the role the decorator of a route asks for; "" for @require_auth alone
RequiredRole(op) ==
    IF op \in {"create", "update", "delete", "delete_by_criteria", "preview",
               "execute", "approve_admin"}
    THEN "admin" ELSE ""

HasUid(coll, uid) == \E i \in 1..Len(coll) : coll[i].uid = uid

get_user_by_uid(coll, uid) == coll[CHOOSE i \in 1..Len(coll) : coll[i].uid = uid]

\* a role check that lets every authenticated account through
RoleDeniedNever(user, required_role) == FALSE

RoleDenied(user, required_role) ==
    \/ required_role = "admin" /\ user.role # "admin"
    \/ required_role = "viewer" /\ user.role \notin {"viewer", "admin"}

\* a request arrives at a decorated route
receive_http(w, request) ==
    /\ pc[w] = "idle"
    /\ request.op = "create" => nextId + CreatesInFlight <= MaxId
    /\ Goto(w, "require_auth", request)
    /\ UNCHANGED <<resources, departments, nextId>>

require_auth(w) ==
    /\ pc[w] = "require_auth"
    /\ LET authorization == local[w].authorization
           reject(status, error) ==
               /\ response' = [op |-> local[w].op, status |-> status, error |-> error]
               /\ pc' = [pc EXCEPT ![w] = "idle"]
               /\ local' = [local EXCEPT ![w] = Idle]
               /\ current_user' = [current_user EXCEPT ![w] = NoUser]
       IN  IF authorization.scheme # "Bearer" THEN
               reject(401, "Authentication token is required")
           ELSE IF ~authorization.valid THEN
               reject(401, "Invalid token")
           ELSE IF \/ ~HasUid(users, authorization.uid)
                   \/ get_user_by_uid(users, authorization.uid).status # "active" THEN
               reject(403, "User account is not active")
           ELSE IF RoleDenied(get_user_by_uid(users, authorization.uid),
                              RequiredRole(local[w].op)) THEN
               reject(403, "Access denied. Admin role required")
           ELSE
               /\ response' = NoResponse
               /\ pc' = [pc EXCEPT ![w] = FirstStep(local[w].op)]
               /\ local' = local
               /\ current_user' = [current_user EXCEPT ![w] =
                                       get_user_by_uid(users, authorization.uid)]
    /\ UNCHANGED <<resources, departments, nextId, users, last_sl_no>>

HasUserId(coll, id) == \E i \in 1..Len(coll) : coll[i].id = id

UserIndex(coll, id) == CHOOSE i \in 1..Len(coll) : coll[i].id = id

\* find_one of approve_admin_user
approve_find(w) ==
    /\ pc[w] = "approve_find"
    /\ LET data == local[w].data IN
       IF ~Has(data, "user_id") THEN
           Respond(w, [op |-> "approve_admin", status |-> 400,
                       error |-> "User ID is required"])
       ELSE IF ~HasUserId(users, data.user_id) THEN
           Respond(w, [op |-> "approve_admin", status |-> 400, error |-> "User not found"])
       ELSE IF users[UserIndex(users, data.user_id)].status # "pending" THEN
           Respond(w, [op |-> "approve_admin", status |-> 400,
                       error |-> "User is not in pending status"])
       ELSE IF users[UserIndex(users, data.user_id)].role # "admin" THEN
           Respond(w, [op |-> "approve_admin", status |-> 400,
                       error |-> "User is not an admin account"])
       ELSE Goto(w, "approve_approver", [op |-> "approve_admin", user_id |-> data.user_id])
    /\ UNCHANGED <<resources, departments, nextId>>

\* find_one of the approver, read for the confirmation mail
approve_approver(w) ==
    /\ pc[w] = "approve_approver"
    /\ Goto(w, "approve_write", local[w])
    /\ UNCHANGED <<resources, departments, nextId>>

\* update_one of approve_admin_user
approve_write(w) ==
    /\ pc[w] = "approve_write"
    /\ IF HasUserId(users, local[w].user_id)
       THEN /\ users' = [users EXCEPT ![UserIndex(users, local[w].user_id)].status =
                                          "active"]
            /\ response' = IF users' # users
                           THEN [op |-> "approve_admin", status |-> 200,
                                 message |-> "Admin user approved successfully"]
                           ELSE [op |-> "approve_admin", status |-> 400,
                                 error |-> "Failed to update user status"]
       ELSE /\ users' = users
            /\ response' = [op |-> "approve_admin", status |-> 400,
                            error |-> "Failed to update user status"]
    /\ pc' = [pc EXCEPT ![w] = "idle"]
    /\ local' = [local EXCEPT ![w] = Idle]
    /\ UNCHANGED <<resources, departments, nextId, current_user, last_sl_no>>

\* ------------------------------------------------------------------------
\* Criteria of the hierarchical deletion handlers
\* ------------------------------------------------------------------------
CriteriaValid(data) ==
    Truthy(data, "department") /\ Truthy(data, "location") /\ Truthy(data, "device_name")

QuantityValid(data) == Has(data, "quantity") => ParseInt(data.quantity).ok

\* int(quantity) raises an exception the handler's "except ValueError" does
\* not catch
QuantityTypeError(data) ==
    /\ Has(data, "quantity")
    /\ ~ParseInt(data.quantity).ok
    /\ ParseInt(data.quantity).raises = "TypeError"

\* criteria built without the quantity
SearchCriteriaNoQuantity(data) ==
    [department |-> data.department, location |-> data.location,
     device_name |-> data.device_name]

SearchCriteria(data) ==
    IF Has(data, "quantity")
    THEN [department |-> data.department, location |-> data.location,
          device_name |-> data.device_name, quantity |-> ParseInt(data.quantity).v]
    ELSE [department |-> data.department, location |-> data.location,
          device_name |-> data.device_name]

\* a query that forgets the location
FindMatchingAnyLocation(coll, search_criteria) ==
    find(coll, [k \in DOMAIN search_criteria \ {"location"} |-> search_criteria[k]])

\* a query that hands the newest record out first
FindMatchingNewestFirst(coll, search_criteria) ==
    LET found == find(coll, search_criteria)
    IN  [i \in 1..Len(found) |-> found[Len(found) + 1 - i]]

\* list(db.resources.find(search_criteria)) of Execute
FindMatching(coll, search_criteria) == find(coll, search_criteria)

TotalValue(doc) == doc.cost * doc.quantity

\* the ambiguity test off by one
RequiresQuantitySelectionOverTwo(matching, data) ==
    Len(matching) > 2 /\ ~Has(data, "quantity")

RequiresQuantitySelection(matching, data) ==
    Len(matching) > 1 /\ ~Has(data, "quantity")

\* a preview that always reports ready
DeletionReadyAlways(requires_quantity_selection) == TRUE

DeletionReady(requires_quantity_selection) == ~requires_quantity_selection

ResourcePreview(doc) ==
    [id |-> doc.id, sl_no |-> doc.sl_no, device_name |-> doc.device_name,
     quantity |-> doc.quantity, location |-> doc.location,
     department |-> doc.department, cost |-> doc.cost,
     total_value |-> TotalValue(doc)]

ResourceOption(doc) ==
    [id |-> doc.id, sl_no |-> doc.sl_no, quantity |-> doc.quantity,
     cost |-> doc.cost, total_value |-> TotalValue(doc)]

PreviewResponse(coll, data) ==
    IF DOMAIN data = {} THEN
        [op |-> "preview", status |-> 400, error |-> "Request data is required"]
    ELSE IF ~CriteriaValid(data) THEN
        [op |-> "preview", status |-> 400,
         error |-> "Department, location, and device_name are required"]
    ELSE IF QuantityTypeError(data) THEN
        [op |-> "preview", status |-> 500, error |-> "Failed to preview deletion"]
    ELSE IF ~QuantityValid(data) THEN
        [op |-> "preview", status |-> 400, error |-> "Invalid data type"]
    ELSE LET search_criteria == SearchCriteria(data)
             matching_resources == SortBySlNo(find(coll, search_criteria))
             requires_quantity_selection ==
                 RequiresQuantitySelection(matching_resources, data)
         IN  IF matching_resources = <<>> THEN
                 [op |-> "preview", status |-> 200, found |-> FALSE,
                  search_criteria |-> search_criteria, matches |-> <<>>]
             ELSE
                 [op |-> "preview", status |-> 200, found |-> TRUE,
                  search_criteria |-> search_criteria,
                  matches |-> [i \in 1..Len(matching_resources) |->
                                  ResourcePreview(matching_resources[i])],
                  summary |-> [total_resources |-> Len(matching_resources),
                               total_quantity |-> SumQuantity(matching_resources),
                               total_value |-> SumValue(matching_resources),
                               requires_quantity_selection |-> requires_quantity_selection],
                  deletion_ready |-> DeletionReady(requires_quantity_selection)]

\* a preview that removes the record it resolved
preview_deletion_removing(w) ==
    /\ pc[w] = "preview_deletion"
    /\ Respond(w, PreviewResponse(resources, local[w].data))
    /\ LET preview == PreviewResponse(resources, local[w].data)
       IN  resources' = IF Has(preview, "deletion_ready") /\ preview.deletion_ready
                        THEN delete_one(resources, preview.matches[1].id)
                        ELSE resources
    /\ UNCHANGED <<departments, nextId>>

\* a preview that lists the candidates in the order its own worker iterates
\* the store
preview_deletion_per_worker(w) ==
    /\ pc[w] = "preview_deletion"
    /\ Respond(w, IF w = "w1"
                  THEN PreviewResponse(resources, local[w].data)
                  ELSE PreviewResponse([i \in 1..Len(resources) |->
                                           resources[Len(resources) + 1 - i]],
                                       local[w].data))
    /\ UNCHANGED <<resources, departments, nextId>>

\* POST /deletion/preview
preview_deletion(w) ==
    /\ pc[w] = "preview_deletion"
    /\ Respond(w, PreviewResponse(resources, local[w].data))
    /\ UNCHANGED <<resources, departments, nextId>>

\* ------------------------------------------------------------------------
\* update_department_stats: one aggregation, then one update_one
\* ------------------------------------------------------------------------
DepartmentStatsPipeline(coll, department_name) ==
    LET matched == find(coll, [department |-> department_name])
    IN  IF matched = <<>> THEN [resource_count |-> 0, total_cost |-> 0]
        ELSE [resource_count |-> SumQuantity(matched), total_cost |-> SumValue(matched)]

SetDepartmentStats(coll, department_name, stats) ==
    IF HasName(coll, department_name)
    THEN [coll EXCEPT ![FirstIndex(coll, department_name)] =
             [@ EXCEPT !.resource_count = stats.resource_count,
                       !.total_cost = stats.total_cost]]
    ELSE coll

update_department_stats_aggregate(w) ==
    /\ pc[w] = "stats_aggregate"
    /\ Goto(w, "stats_write",
            [op |-> local[w].op, stats_for |-> local[w].stats_for,
             result |-> local[w].result,
             stats |-> DepartmentStatsPipeline(resources, Head(local[w].stats_for))])
    /\ UNCHANGED <<resources, departments, nextId>>

update_department_stats_write(w) ==
    /\ pc[w] = "stats_write"
    /\ departments' = SetDepartmentStats(departments, Head(local[w].stats_for),
                                         local[w].stats)
    /\ IF Tail(local[w].stats_for) # <<>>
       THEN Goto(w, "stats_aggregate",
                 [op |-> local[w].op, stats_for |-> Tail(local[w].stats_for),
                  result |-> local[w].result])
       ELSE IF local[w].op = "update"
       THEN Goto(w, "update_refetch", [op |-> "update", result |-> local[w].result])
       ELSE Respond(w, local[w].result)
    /\ UNCHANGED <<resources, nextId>>

\* ------------------------------------------------------------------------
\* DELETE /deletion/execute
\* ------------------------------------------------------------------------
DeletedResourceInfo(doc) ==
    [id |-> doc.id, sl_no |-> doc.sl_no, device_name |-> doc.device_name,
     quantity |-> doc.quantity, location |-> doc.location,
     department |-> doc.department, cost |-> doc.cost,
     total_value |-> TotalValue(doc)]

execute_find(w) ==
    /\ pc[w] = "execute_find"
    /\ LET data == local[w].data IN
       IF DOMAIN data = {} THEN
           Respond(w, [op |-> "execute", status |-> 400,
                       error |-> "Request data is required"])
       ELSE IF ~CriteriaValid(data) THEN
           Respond(w, [op |-> "execute", status |-> 400,
                       error |-> "Department, location, and device_name are required"])
       ELSE IF QuantityTypeError(data) THEN
           Respond(w, [op |-> "execute", status |-> 500,
                       error |-> "Failed to execute deletion"])
       ELSE IF ~QuantityValid(data) THEN
           Respond(w, [op |-> "execute", status |-> 400, error |-> "Invalid data type"])
       ELSE LET search_criteria == SearchCriteria(data)
                matching_resources == FindMatching(resources, search_criteria)
            IN  IF matching_resources = <<>> THEN
                    Respond(w, [op |-> "execute", status |-> 404, success |-> FALSE,
                                error |-> "No resources found matching the specified criteria",
                                search_criteria |-> search_criteria])
                ELSE IF RequiresQuantitySelection(matching_resources, data) THEN
                    Respond(w, [op |-> "execute", status |-> 400, success |-> FALSE,
                                error |-> "Multiple resources found",
                                matching_resources |->
                                    [i \in 1..Len(matching_resources) |->
                                        ResourceOption(matching_resources[i])],
                                search_criteria |-> search_criteria])
                ELSE
                    Goto(w, "execute_delete",
                         [op |-> "execute",
                          department |-> data.department,
                          search_criteria |-> search_criteria,
                          resource_id |-> matching_resources[1].id,
                          deleted_resource_info |->
                              DeletedResourceInfo(matching_resources[1])])
    /\ UNCHANGED <<resources, departments, nextId>>

\* a delete by the criteria instead of by the resolved id
execute_delete_many(w) ==
    /\ pc[w] = "execute_delete"
    /\ resources' = SelectSeq(resources,
                              LAMBDA doc : ~Matches(doc, local[w].search_criteria))
    /\ IF find(resources, local[w].search_criteria) # <<>>
       THEN Goto(w, "stats_aggregate",
                 [op |-> "execute",
                  stats_for |-> <<local[w].department>>,
                  result |-> [op |-> "execute", status |-> 200, success |-> TRUE,
                              deleted_resource |-> local[w].deleted_resource_info,
                              deletion_criteria |-> local[w].search_criteria]])
       ELSE Respond(w, [op |-> "execute", status |-> 500, success |-> FALSE,
                        error |-> "Failed to delete resource from database"])
    /\ UNCHANGED <<departments, nextId>>

\* a delete of the first record matching the criteria
execute_delete_first_match(w) ==
    /\ pc[w] = "execute_delete"
    /\ LET matching == find(resources, local[w].search_criteria)
       IN  IF matching # <<>>
           THEN /\ resources' = delete_one(resources, matching[1].id)
                /\ Goto(w, "stats_aggregate",
                        [op |-> "execute",
                         stats_for |-> <<local[w].department>>,
                         result |-> [op |-> "execute", status |-> 200, success |-> TRUE,
                                     deleted_resource |-> local[w].deleted_resource_info,
                                     deletion_criteria |-> local[w].search_criteria]])
           ELSE /\ resources' = resources
                /\ Respond(w, [op |-> "execute", status |-> 500, success |-> FALSE,
                               error |-> "Failed to delete resource from database"])
    /\ UNCHANGED <<departments, nextId>>

\* a delete of every record of the resolved (department, location,
\* device_name), whatever its quantity
execute_delete_triple(w) ==
    /\ pc[w] = "execute_delete"
    /\ resources' = SelectSeq(resources,
           LAMBDA doc : ~Matches(doc, SearchCriteriaNoQuantity(local[w].search_criteria)))
    /\ IF HasId(resources, local[w].resource_id)
       THEN Goto(w, "stats_aggregate",
                 [op |-> "execute",
                  stats_for |-> <<local[w].department>>,
                  result |-> [op |-> "execute", status |-> 200, success |-> TRUE,
                              deleted_resource |-> local[w].deleted_resource_info,
                              deletion_criteria |-> local[w].search_criteria]])
       ELSE Respond(w, [op |-> "execute", status |-> 500, success |-> FALSE,
                        error |-> "Failed to delete resource from database"])
    /\ UNCHANGED <<departments, nextId>>

execute_delete(w) ==
    /\ pc[w] = "execute_delete"
    /\ resources' = delete_one(resources, local[w].resource_id)
    /\ IF HasId(resources, local[w].resource_id)
       THEN Goto(w, "stats_aggregate",
                 [op |-> "execute",
                  stats_for |-> <<local[w].department>>,
                  result |-> [op |-> "execute", status |-> 200, success |-> TRUE,
                              deleted_resource |-> local[w].deleted_resource_info,
                              deletion_criteria |-> local[w].search_criteria]])
       ELSE Respond(w, [op |-> "execute", status |-> 500, success |-> FALSE,
                        error |-> "Failed to delete resource from database"])
    /\ UNCHANGED <<departments, nextId>>


\* ------------------------------------------------------------------------
\* DELETE /delete (delete_resource_by_criteria)
\* ------------------------------------------------------------------------
criteria_find(w) ==
    /\ pc[w] = "criteria_find"
    /\ LET data == local[w].data IN
       IF DOMAIN data = {} THEN
           Respond(w, [op |-> "delete_by_criteria", status |-> 400,
                       error |-> "Request data is required"])
       ELSE IF ~CriteriaValid(data) THEN
           Respond(w, [op |-> "delete_by_criteria", status |-> 400,
                       error |-> "Department, location, and device_name are required"])
       ELSE IF QuantityTypeError(data) THEN
           Respond(w, [op |-> "delete_by_criteria", status |-> 500,
                       error |-> "Failed to delete resource"])
       ELSE IF ~QuantityValid(data) THEN
           Respond(w, [op |-> "delete_by_criteria", status |-> 400,
                       error |-> "Invalid data type"])
       ELSE LET search_criteria == SearchCriteria(data)
                matching_resources == find(resources, search_criteria)
            IN  IF matching_resources = <<>> THEN
                    Respond(w, [op |-> "delete_by_criteria", status |-> 404,
                                error |-> "No resources found matching the specified criteria",
                                search_criteria |-> search_criteria])
                ELSE IF RequiresQuantitySelection(matching_resources, data) THEN
                    Respond(w, [op |-> "delete_by_criteria", status |-> 400,
                                error |-> "Multiple resources found",
                                matching_resources |->
                                    [i \in 1..Len(matching_resources) |->
                                        ResourceOption(matching_resources[i])]])
                ELSE
                    Goto(w, "criteria_delete",
                         [op |-> "delete_by_criteria",
                          department |-> data.department,
                          search_criteria |-> search_criteria,
                          resource_id |-> matching_resources[1].id,
                          deleted_resource_info |->
                              DeletedResourceInfo(matching_resources[1])])
    /\ UNCHANGED <<resources, departments, nextId>>

criteria_delete(w) ==
    /\ pc[w] = "criteria_delete"
    /\ resources' = delete_one(resources, local[w].resource_id)
    /\ IF HasId(resources, local[w].resource_id)
       THEN Goto(w, "stats_aggregate",
                 [op |-> "delete_by_criteria",
                  stats_for |-> <<local[w].department>>,
                  result |-> [op |-> "delete_by_criteria", status |-> 200,
                              deleted_resource |-> local[w].deleted_resource_info,
                              deletion_criteria |-> local[w].search_criteria]])
       ELSE Respond(w, [op |-> "delete_by_criteria", status |-> 500,
                        error |-> "Failed to delete resource"])
    /\ UNCHANGED <<departments, nextId>>

\* ------------------------------------------------------------------------
\* DELETE /<resource_id> (delete_resource)
\* ------------------------------------------------------------------------
ObjectIdIsValid(resource_id) == resource_id >= 1

find_one(coll, id) == CHOOSE doc \in {coll[i] : i \in 1..Len(coll)} : doc.id = id

delete_find(w) ==
    /\ pc[w] = "delete_find"
    /\ LET resource_id == local[w].resource_id IN
       IF ~ObjectIdIsValid(resource_id) THEN
           Respond(w, [op |-> "delete", status |-> 400,
                       error |-> "Invalid resource ID format"])
       ELSE IF ~HasId(resources, resource_id) THEN
           Respond(w, [op |-> "delete", status |-> 404, error |-> "Resource not found"])
       ELSE
           Goto(w, "delete_delete",
                [op |-> "delete", resource_id |-> resource_id,
                 department |-> find_one(resources, resource_id).department,
                 deleted_resource_info |->
                     DeletedResourceInfo(find_one(resources, resource_id))])
    /\ UNCHANGED <<resources, departments, nextId>>

\* GET /<resource_id> (get_resource)
GetResourceResponse(coll, resource_id) ==
    IF ~ObjectIdIsValid(resource_id) THEN
        [op |-> "get", status |-> 400, error |-> "Invalid resource ID"]
    ELSE IF ~HasId(coll, resource_id) THEN
        [op |-> "get", status |-> 404, error |-> "Resource not found"]
    ELSE [op |-> "get", status |-> 200, resource |-> find_one(coll, resource_id)]

get_resource(w) ==
    /\ pc[w] = "get_resource"
    /\ Respond(w, GetResourceResponse(resources, local[w].resource_id))
    /\ UNCHANGED <<resources, departments, nextId>>

\* a delete that reports success and leaves the record stored
delete_delete_unacknowledged(w) ==
    /\ pc[w] = "delete_delete"
    /\ resources' = resources
    /\ LET result == [op |-> "delete", status |-> 200,
                      deleted_resource |-> local[w].deleted_resource_info]
       IN  IF local[w].department # "" THEN
               Goto(w, "stats_aggregate",
                    [op |-> "delete", stats_for |-> <<local[w].department>>,
                     result |-> result])
           ELSE Respond(w, result)
    /\ UNCHANGED <<departments, nextId>>

delete_delete(w) ==
    /\ pc[w] = "delete_delete"
    /\ resources' = delete_one(resources, local[w].resource_id)
    /\ LET result == [op |-> "delete", status |-> 200,
                      deleted_resource |-> local[w].deleted_resource_info]
       IN  IF ~HasId(resources, local[w].resource_id) THEN
               Respond(w, [op |-> "delete", status |-> 500,
                           error |-> "Failed to delete resource"])
           ELSE IF local[w].department # "" THEN
               Goto(w, "stats_aggregate",
                    [op |-> "delete", stats_for |-> <<local[w].department>>,
                     result |-> result])
           ELSE Respond(w, result)
    /\ UNCHANGED <<departments, nextId>>


\* ------------------------------------------------------------------------
\* ensure_department_exists / update_department_locations
\* ------------------------------------------------------------------------
\* str.strip() on the names the requests of this model carry
Strip(name) ==
    IF name = " Robotics" THEN "Robotics"
    ELSE IF name = " " THEN ""
    ELSE name

EnsureName(loc) ==
    IF loc.op = "create" THEN loc.data.department ELSE loc.update_fields.department

EnsureLocation(loc) ==
    IF loc.op = "create" THEN loc.data.location ELSE loc.update_fields.location

AfterEnsure(loc) ==
    IF loc.op = "create" THEN "add_location"
    ELSE IF Has(loc.update_fields, "location") THEN "add_location"
    ELSE "update_write"

AfterLocations(loc) == IF loc.op = "create" THEN "create_serial" ELSE "update_write"

\* find_one({'name': department_name}) of ensure_department_exists
ensure_department_find(w) ==
    /\ pc[w] = "ensure_find"
    /\ IF HasName(departments, EnsureName(local[w]))
       THEN Goto(w, AfterEnsure(local[w]), local[w])
       ELSE Goto(w, "ensure_insert", local[w])
    /\ UNCHANGED <<resources, departments, nextId>>

\* insert_one of ensure_department_exists; the unique index on name rejects
\* a second document of the same (stripped) name
ensure_department_insert(w) ==
    /\ pc[w] = "ensure_insert"
    /\ LET dept_doc == create_department_document(Strip(EnsureName(local[w])))
       IN  IF HasName(departments, dept_doc.name)
           THEN /\ Respond(w, [op |-> local[w].op, status |-> 400,
                               error |-> "Failed to verify department"])
                /\ UNCHANGED departments
           ELSE /\ departments' = Append(departments, dept_doc)
                /\ Goto(w, AfterEnsure(local[w]), local[w])
    /\ UNCHANGED <<resources, nextId>>

AddToSetLocation(coll, department_name, location) ==
    IF HasName(coll, department_name)
    THEN [coll EXCEPT ![FirstIndex(coll, department_name)].locations = @ \cup {location}]
    ELSE coll

update_department_locations(w) ==
    /\ pc[w] = "add_location"
    /\ departments' = AddToSetLocation(departments, EnsureName(local[w]),
                                       EnsureLocation(local[w]))
    /\ Goto(w, AfterLocations(local[w]), local[w])
    /\ UNCHANGED <<resources, nextId>>

\* ------------------------------------------------------------------------
\* POST /departments (create_department)
\* ------------------------------------------------------------------------
\* the names of this model whose stripped form has fewer than 2 characters
ShortNames == {"", "R"}

validate_department_data(data) ==
    /\ Truthy(data, "name")
    /\ Strip(data.name) \notin ShortNames

\* validation, then find_one({'name': data['name']})
department_find(w) ==
    /\ pc[w] = "department_find"
    /\ LET data == local[w].data IN
       IF DOMAIN data = {} THEN
           Respond(w, [op |-> "create_department", status |-> 400,
                       error |-> "Request data is required"])
       ELSE IF ~validate_department_data(data) THEN
           Respond(w, [op |-> "create_department", status |-> 400,
                       error |-> "Validation failed"])
       ELSE IF HasName(departments, data.name) THEN
           Respond(w, [op |-> "create_department", status |-> 409,
                       error |-> "Department already exists"])
       ELSE Goto(w, "department_insert", local[w])
    /\ UNCHANGED <<resources, departments, nextId>>

\* insert_one of the document, its name stripped; the unique index on name
\* raises DuplicateKeyError, which the handler answers as a 500
department_insert(w) ==
    /\ pc[w] = "department_insert"
    /\ LET dept_doc == create_department_document(Strip(local[w].data.name))
       IN  IF HasName(departments, dept_doc.name)
           THEN /\ Respond(w, [op |-> "create_department", status |-> 500,
                               error |-> "Failed to create department"])
                /\ UNCHANGED departments
           ELSE /\ departments' = Append(departments, dept_doc)
                /\ Respond(w, [op |-> "create_department", status |-> 201,
                               department |-> dept_doc])
    /\ UNCHANGED <<resources, nextId>>

\* ------------------------------------------------------------------------
\* POST '' (create_resource)
\* ------------------------------------------------------------------------
RequiredFields == {"device_name", "quantity", "location", "cost", "department"}

Blank(data, field) ==
    IF field = "quantity" THEN Has(data.quantity, "str") /\ Strip(data.quantity.str) = ""
    ELSE IF field = "cost" THEN FALSE
    ELSE Strip(data[field]) = ""

validate_resource_data(data) ==
    /\ \A field \in RequiredFields : Has(data, field) /\ ~Blank(data, field)
    /\ ParseInt(data.quantity).ok
    /\ ParseInt(data.quantity).v > 0
    /\ data.cost >= 0

MaxSlNo(coll) == CHOOSE n \in {coll[i].sl_no : i \in 1..Len(coll)} :
    \A j \in 1..Len(coll) : coll[j].sl_no <= n

NextSlNo(coll) == IF coll = <<>> THEN 1 ELSE MaxSlNo(coll) + 1

create_resource_document(data, id, next_sl_no) ==
    [id |-> id,
     sl_no |-> IF Has(data, "sl_no") THEN data.sl_no ELSE next_sl_no,
     device_name |-> data.device_name,
     quantity |-> ParseInt(data.quantity).v,
     location |-> data.location,
     cost |-> data.cost,
     department |-> data.department,
     procurement_date |-> "datetime"]


create_validate(w) ==
    /\ pc[w] = "create_validate"
    /\ LET data == local[w].data IN
       IF DOMAIN data = {} THEN
           Respond(w, [op |-> "create", status |-> 400,
                       error |-> "Request data is required"])
       ELSE IF ~validate_resource_data(data) THEN
           Respond(w, [op |-> "create", status |-> 400, error |-> "Validation failed"])
       ELSE IF HasName(departments, data.department) THEN
           Goto(w, "add_location", [op |-> "create", data |-> data])
       ELSE
           Goto(w, "ensure_insert", [op |-> "create", data |-> data])
    /\ UNCHANGED <<resources, departments, nextId>>

create_serial(w) ==
    /\ pc[w] = "create_serial"
    /\ Goto(w, "create_insert",
            [op |-> "create", data |-> local[w].data,
             next_sl_no |-> NextSlNo(resources)])
    /\ UNCHANGED <<resources, departments, nextId>>

create_insert(w) ==
    /\ pc[w] = "create_insert"
    /\ LET resource_doc ==
               create_resource_document(local[w].data, nextId, local[w].next_sl_no)
       IN  /\ resources' = Append(resources, resource_doc)
           /\ last_sl_no' = resource_doc.sl_no
           /\ response' = NoResponse
           /\ pc' = [pc EXCEPT ![w] = "stats_aggregate"]
           /\ local' = [local EXCEPT ![w] =
                   [op |-> "create", stats_for |-> <<local[w].data.department>>,
                    result |-> [op |-> "create", status |-> 201,
                                resource |-> resource_doc]]]
    /\ nextId' = nextId + 1
    /\ UNCHANGED <<departments, users, current_user>>

\* ------------------------------------------------------------------------
\* PUT /<resource_id> (update_resource)
\* ------------------------------------------------------------------------
UpdatableFields == {"device_name", "quantity", "location", "cost", "department"}

\* datetime.fromisoformat on the date strings of this model
IsoDate(str) == str = "2024-01-01"

\* the value $set stores for procurement_date, named by its BSON type: a
\* string is parsed to a datetime, any other truthy JSON value is stored as
\* it came
ProcurementDate(raw) == IF Has(raw, "str") THEN "datetime" ELSE "number"

UpdateFields(data) ==
    [k \in (DOMAIN data \cap UpdatableFields)
            \cup (DOMAIN data \cap {"procurement_date"}) |->
        IF k = "quantity" THEN ParseInt(data.quantity).v
        ELSE IF k = "procurement_date" THEN ProcurementDate(data.procurement_date)
        ELSE data[k]]

SetFields(doc, update_fields) ==
    [k \in DOMAIN doc |-> IF k \in DOMAIN update_fields THEN update_fields[k] ELSE doc[k]]

update_one(coll, id, update_fields) ==
    [i \in 1..Len(coll) |->
        IF coll[i].id = id THEN SetFields(coll[i], update_fields) ELSE coll[i]]

StatsTargets(old_department, update_fields) ==
    IF Has(update_fields, "department") /\ update_fields.department # old_department
    THEN <<old_department, update_fields.department>>
    ELSE <<old_department>>

update_find(w) ==
    /\ pc[w] = "update_find"
    /\ LET resource_id == local[w].resource_id
           data == local[w].data IN
       IF ~ObjectIdIsValid(resource_id) THEN
           Respond(w, [op |-> "update", status |-> 400,
                       error |-> "Invalid resource ID format"])
       ELSE IF DOMAIN data = {} THEN
           Respond(w, [op |-> "update", status |-> 400,
                       error |-> "Request data is required"])
       ELSE IF ~HasId(resources, resource_id) THEN
           Respond(w, [op |-> "update", status |-> 404, error |-> "Resource not found"])
       ELSE IF Has(data, "quantity") /\ ~ParseInt(data.quantity).ok THEN
           Respond(w, [op |-> "update", status |-> 400,
                       error |-> "Quantity must be a valid integer"])
       ELSE IF /\ Has(data, "procurement_date")
               /\ Has(data.procurement_date, "str")
               /\ ~IsoDate(data.procurement_date.str) THEN
           Respond(w, [op |-> "update", status |-> 400,
                       error |-> "Invalid procurement date format. Use YYYY-MM-DD"])
       ELSE IF DOMAIN UpdateFields(data) = {} THEN
           Respond(w, [op |-> "update", status |-> 400,
                       error |-> "No valid fields provided for update"])
       ELSE
           Goto(w, IF Has(data, "department") THEN "ensure_find" ELSE "update_write",
                [op |-> "update", resource_id |-> resource_id,
                 update_fields |-> UpdateFields(data),
                 old_department |-> find_one(resources, resource_id).department])
    /\ UNCHANGED <<resources, departments, nextId>>

update_write(w) ==
    /\ pc[w] = "update_write"
    /\ resources' = update_one(resources, local[w].resource_id, local[w].update_fields)
    /\ IF HasId(resources, local[w].resource_id)
       THEN Goto(w, "stats_aggregate",
                 [op |-> "update",
                  stats_for |-> StatsTargets(local[w].old_department,
                                             local[w].update_fields),
                  result |-> [op |-> "update", status |-> 200,
                              resource_id |-> local[w].resource_id,
                              updated_fields |-> DOMAIN local[w].update_fields]])
       ELSE Respond(w, [op |-> "update", status |-> 200,
                        error |-> "No changes were made to the resource"])
    /\ UNCHANGED <<departments, nextId>>

update_refetch(w) ==
    /\ pc[w] = "update_refetch"
    /\ LET id == local[w].result.resource_id
       IN  IF HasId(resources, id)
           THEN Respond(w, [op |-> "update", status |-> 200, found |-> TRUE,
                            resource |-> find_one(resources, id),
                            updated_fields |-> local[w].result.updated_fields])
           ELSE Respond(w, [op |-> "update", status |-> 200, found |-> FALSE,
                            updated_fields |-> local[w].result.updated_fields])
    /\ UNCHANGED <<resources, departments, nextId>>


\* ------------------------------------------------------------------------
\* POST /advanced-search (advanced_search): count_documents, then
\* find().sort().skip().limit(), then one aggregation
\* ------------------------------------------------------------------------
Min(a, b) == IF a <= b THEN a ELSE b

Page(data) == IF Has(data, "page") THEN data.page ELSE 1

PerPage(data) == Min(IF Has(data, "per_page") THEN data.per_page ELSE 20, 100)

SortField(data) == IF Has(data, "sort_by") THEN data.sort_by ELSE "sl_no"

SortOrder(data) ==
    IF Has(data, "sort_order") /\ data.sort_order # "asc" THEN -1 ELSE 1

\* query_filter: department and location by equality, quantity by range
QueryFilterMatches(doc, data) ==
    /\ Truthy(data, "department") => doc.department = data.department
    /\ Truthy(data, "location") => doc.location = data.location
    /\ (Has(data, "quantity_range") /\ DOMAIN data.quantity_range # {}) =>
          /\ Has(data.quantity_range, "min") => doc.quantity >= data.quantity_range.min
          /\ Has(data.quantity_range, "max") => doc.quantity <= data.quantity_range.max

FindFiltered(coll, data) == SelectSeq(coll, LAMBDA doc : QueryFilterMatches(doc, data))

count_documents(coll, data) == Len(FindFiltered(coll, data))

\* sort(field, order): the documents by their key, those of equal key in
\* the order the store hands them out
SortByField(docs, field, order) ==
    LET n == Len(docs)
        rank == [j \in 1..n |->
                    Cardinality({i \in 1..n :
                        \/ order * docs[i][field] < order * docs[j][field]
                        \/ docs[i][field] = docs[j][field] /\ i < j}) + 1]
    IN  [r \in 1..n |-> docs[CHOOSE j \in 1..n : rank[j] = r]]

\* a skip that counts the requested page in
SkipThroughPage(page, per_page) == page * per_page

Skip(page, per_page) == (page - 1) * per_page

\* the number of documents the server puts in the first batch of a find
FirstBatch == 101

\* cursor.skip(n).limit(m): limit 0 is no limit; a negative limit asks for
\* abs(m) documents in a single batch, after which the cursor is closed
SkipLimit(docs, skip, limit) ==
    IF limit = 0 THEN SubSeq(docs, skip + 1, Len(docs))
    ELSE IF limit < 0
    THEN SubSeq(docs, skip + 1, Min(skip + Min(0 - limit, FirstBatch), Len(docs)))
    ELSE SubSeq(docs, skip + 1, Min(skip + limit, Len(docs)))

FindPage(coll, data) ==
    SkipLimit(SortByField(FindFiltered(coll, data), SortField(data), SortOrder(data)),
              Skip(Page(data), PerPage(data)), PerPage(data))

RECURSIVE SumCost(_)
SumCost(docs) == IF docs = <<>> THEN 0 ELSE Head(docs).cost + SumCost(Tail(docs))

\* the aggregation of one group over docs; an average is kept as the exact
\* fraction num/den
Summarize(docs) ==
    IF docs = <<>> THEN
        [total_cost |-> 0, total_quantity |-> 0,
         average_cost |-> [num |-> 0, den |-> 1],
         departments_count |-> 0, locations_count |-> 0, device_types_count |-> 0]
    ELSE
        [total_cost |-> SumValue(docs), total_quantity |-> SumQuantity(docs),
         average_cost |-> [num |-> SumCost(docs), den |-> Len(docs)],
         departments_count |-> Cardinality({docs[i].department : i \in 1..Len(docs)}),
         locations_count |-> Cardinality({docs[i].location : i \in 1..Len(docs)}),
         device_types_count |-> Cardinality({docs[i].device_name : i \in 1..Len(docs)})]

\* a summary of the returned page only
SearchSummaryOfPage(coll, data) == Summarize(FindPage(coll, data))

SearchSummary(coll, data) == Summarize(FindFiltered(coll, data))

search_count(w) ==
    /\ pc[w] = "search_count"
    /\ IF DOMAIN local[w].data = {}
       THEN Respond(w, [op |-> "search", status |-> 400,
                        error |-> "Request data is required"])
       ELSE Goto(w, "search_find",
                 [op |-> "search", data |-> local[w].data,
                  total_count |-> count_documents(resources, local[w].data)])
    /\ UNCHANGED <<resources, departments, nextId>>

\* skip() raises ValueError on a negative count
search_find(w) ==
    /\ pc[w] = "search_find"
    /\ IF Skip(Page(local[w].data), PerPage(local[w].data)) < 0
       THEN Respond(w, [op |-> "search", status |-> 500,
                        error |-> "Failed to perform advanced search"])
       ELSE Goto(w, "search_aggregate",
                 [op |-> "search", data |-> local[w].data,
                  total_count |-> local[w].total_count,
                  resources |-> FindPage(resources, local[w].data)])
    /\ UNCHANGED <<resources, departments, nextId>>

\* a // b, rounded towards minus infinity
FloorDiv(a, b) == IF b > 0 THEN a \div b ELSE (0 - a) \div (0 - b)

\* (total_count + per_page - 1) // per_page raises ZeroDivisionError when
\* per_page is 0
search_aggregate(w) ==
    /\ pc[w] = "search_aggregate"
    /\ LET data == local[w].data
           page == Page(data)
           per_page == PerPage(data)
           total_count == local[w].total_count
       IN  IF per_page = 0
           THEN Respond(w, [op |-> "search", status |-> 500,
                            error |-> "Failed to perform advanced search"])
           ELSE LET total_pages == FloorDiv(total_count + per_page - 1, per_page)
                IN  Respond(w, [op |-> "search", status |-> 200,
                                resources |-> local[w].resources,
                                pagination |->
                                    [page |-> page, per_page |-> per_page,
                                     total_count |-> total_count,
                                     total_pages |-> total_pages,
                                     has_next |-> page < total_pages,
                                     has_prev |-> page > 1],
                                search_summary |-> SearchSummary(resources, data)])
    /\ UNCHANGED <<resources, departments, nextId>>

\* ------------------------------------------------------------------------
\* Hierarchy index: get_filter_options, get_departments_for_deletion,
\* get_locations_for_deletion, get_locations_for_department
\* ------------------------------------------------------------------------
\* the names of this model in ascending (binary) string order
NamesInOrder ==
    <<"", " ", " Robotics", "Architecture", "Chair", "Desk", "Lab-A", "Lab-B",
      "Robotics">>

NameRank(name) == CHOOSE i \in 1..Len(NamesInOrder) : NamesInOrder[i] = name

RECURSIVE SortNames(_)
SortNames(names) ==
    IF names = {} THEN <<>>
    ELSE LET first == CHOOSE n \in names :
                          \A m \in names : NameRank(n) <= NameRank(m)
         IN  <<first>> \o SortNames(names \ {first})

\* db.resources.distinct(field, {'department': dept_name})
Distinct(coll, field, dept_name) ==
    {coll[i][field] : i \in {j \in 1..Len(coll) : coll[j].department = dept_name}}

FilterStats(coll, dept_name) ==
    LET matched == find(coll, [department |-> dept_name])
    IN  IF matched = <<>>
        THEN [total_resources |-> 0, total_cost |-> 0, unique_devices |-> 0]
        ELSE [total_resources |-> SumQuantity(matched),
              total_cost |-> SumValue(matched),
              unique_devices |-> Cardinality(Distinct(coll, "device_name", dept_name))]

\* db.departments.find({}).sort('name', 1)
filter_departments(w) ==
    /\ pc[w] = "filter_departments"
    /\ LET names == SortNames({departments[i].name : i \in 1..Len(departments)})
       IN  IF names = <<>>
           THEN Respond(w, [op |-> "filter_options", status |-> 200,
                            departments |-> <<>>])
           ELSE Goto(w, "filter_distinct_locations",
                     [op |-> "filter_options", pending |-> names,
                      departments_data |-> <<>>])
    /\ UNCHANGED <<resources, departments, nextId>>

filter_distinct_locations(w) ==
    /\ pc[w] = "filter_distinct_locations"
    /\ Goto(w, "filter_distinct_devices",
            [op |-> "filter_options", pending |-> local[w].pending,
             departments_data |-> local[w].departments_data,
             locations |-> SortNames(Distinct(resources, "location",
                                              Head(local[w].pending)))])
    /\ UNCHANGED <<resources, departments, nextId>>

filter_distinct_devices(w) ==
    /\ pc[w] = "filter_distinct_devices"
    /\ Goto(w, "filter_stats",
            [op |-> "filter_options", pending |-> local[w].pending,
             departments_data |-> local[w].departments_data,
             locations |-> local[w].locations,
             device_types |-> SortNames(Distinct(resources, "device_name",
                                                 Head(local[w].pending)))])
    /\ UNCHANGED <<resources, departments, nextId>>

filter_stats(w) ==
    /\ pc[w] = "filter_stats"
    /\ LET dept_name == Head(local[w].pending)
           dept_stats == FilterStats(resources, dept_name)
           departments_data ==
               Append(local[w].departments_data,
                      [name |-> dept_name,
                       locations |-> local[w].locations,
                       device_types |-> local[w].device_types,
                       stats |-> [total_resources |-> dept_stats.total_resources,
                                  total_cost |-> dept_stats.total_cost,
                                  unique_devices |-> dept_stats.unique_devices,
                                  locations_count |-> Len(local[w].locations)]])
       IN  IF Tail(local[w].pending) = <<>>
           THEN Respond(w, [op |-> "filter_options", status |-> 200,
                            departments |-> departments_data])
           ELSE Goto(w, "filter_distinct_locations",
                     [op |-> "filter_options", pending |-> Tail(local[w].pending),
                      departments_data |-> departments_data])
    /\ UNCHANGED <<resources, departments, nextId>>

\* $group by department, $sort by _id
DepartmentGroups(coll) ==
    LET names == SortNames({coll[i].department : i \in 1..Len(coll)})
    IN  [i \in 1..Len(names) |->
            [name |-> names[i],
             resource_count |-> SumQuantity(find(coll, [department |-> names[i]])),
             total_cost |-> SumValue(find(coll, [department |-> names[i]])),
             unique_devices_count |->
                 Cardinality(Distinct(coll, "device_name", names[i])),
             unique_locations_count |->
                 Cardinality(Distinct(coll, "location", names[i]))]]

get_departments_for_deletion(w) ==
    /\ pc[w] = "deletion_departments"
    /\ Respond(w, [op |-> "departments_for_deletion", status |-> 200,
                   departments |-> DepartmentGroups(resources),
                   total_departments |-> Len(DepartmentGroups(resources))])
    /\ UNCHANGED <<resources, departments, nextId>>

\* $max of procurement_date: a date compares above a number
LatestProcurement(docs) ==
    IF \E i \in 1..Len(docs) : docs[i].procurement_date = "datetime"
    THEN "datetime" ELSE "number"

\* $match department, $group by location, $sort by _id
LocationGroups(coll, department_name) ==
    LET names == SortNames(Distinct(coll, "location", department_name))
    IN  [i \in 1..Len(names) |->
            LET docs == find(coll, [department |-> department_name,
                                    location |-> names[i]])
            IN  [name |-> names[i],
                 resource_count |-> SumQuantity(docs),
                 total_cost |-> SumValue(docs),
                 device_types |-> {docs[j].device_name : j \in 1..Len(docs)},
                 resource_entries |-> Len(docs),
                 latest_procurement |-> LatestProcurement(docs)]]

get_locations_for_deletion(w) ==
    /\ pc[w] = "deletion_locations"
    /\ LET locations_data == LocationGroups(resources, local[w].department_name)
       IN  Respond(w, [op |-> "locations_for_deletion", status |-> 200,
                       department |-> local[w].department_name,
                       locations |-> [i \in 1..Len(locations_data) |->
                           [name |-> locations_data[i].name,
                            resource_count |-> locations_data[i].resource_count,
                            total_cost |-> locations_data[i].total_cost,
                            device_types_count |->
                                Cardinality(locations_data[i].device_types),
                            resource_entries |-> locations_data[i].resource_entries]],
                       total_locations |-> Len(locations_data)])
    /\ UNCHANGED <<resources, departments, nextId>>

\* a device tier that counts records where it should add up quantities
DeviceGroupsCountingEntries(coll, department_name, location_name) ==
    LET matched == find(coll, [department |-> department_name,
                               location |-> location_name])
        names == SortNames({matched[i].device_name : i \in 1..Len(matched)})
    IN  [i \in 1..Len(names) |->
            LET docs == find(matched, [device_name |-> names[i]])
            IN  [device_name |-> names[i],
                 total_quantity |-> Len(docs),
                 total_cost |-> SumValue(docs),
                 resource_entries |-> Len(docs),
                 average_cost |-> [num |-> SumCost(docs), den |-> Len(docs)],
                 resources |-> [j \in 1..Len(docs) |-> ResourceOption(docs[j])]]]

\* $match department and location, $group by device_name, $sort by _id
DeviceGroups(coll, department_name, location_name) ==
    LET matched == find(coll, [department |-> department_name,
                               location |-> location_name])
        names == SortNames({matched[i].device_name : i \in 1..Len(matched)})
    IN  [i \in 1..Len(names) |->
            LET docs == find(matched, [device_name |-> names[i]])
            IN  [device_name |-> names[i],
                 total_quantity |-> SumQuantity(docs),
                 total_cost |-> SumValue(docs),
                 resource_entries |-> Len(docs),
                 average_cost |-> [num |-> SumCost(docs), den |-> Len(docs)],
                 resources |-> [j \in 1..Len(docs) |-> ResourceOption(docs[j])]]]

get_devices_for_deletion(w) ==
    /\ pc[w] = "deletion_devices"
    /\ LET devices == DeviceGroups(resources, local[w].department_name,
                                   local[w].location_name)
       IN  Respond(w, [op |-> "devices_for_deletion", status |-> 200,
                       department |-> local[w].department_name,
                       location |-> local[w].location_name,
                       devices |-> devices,
                       total_device_types |-> Len(devices)])
    /\ UNCHANGED <<resources, departments, nextId>>

\* latest_procurement.isoformat() raises AttributeError on a value that is
\* not a datetime
get_locations_for_department(w) ==
    /\ pc[w] = "filter_locations"
    /\ LET locations_data == LocationGroups(resources, local[w].department_name)
       IN  IF \E i \in 1..Len(locations_data) :
                  locations_data[i].latest_procurement # "datetime"
           THEN Respond(w, [op |-> "locations_for_department", status |-> 500,
                            error |-> "Failed to retrieve locations"])
           ELSE Respond(w, [op |-> "locations_for_department", status |-> 200,
                            department |-> local[w].department_name,
                            locations |-> [i \in 1..Len(locations_data) |->
                                [name |-> locations_data[i].name,
                                 resource_count |-> locations_data[i].resource_count,
                                 total_cost |-> locations_data[i].total_cost,
                                 device_types_count |->
                                     Cardinality(locations_data[i].device_types),
                                 device_types |-> locations_data[i].device_types]]])
    /\ UNCHANGED <<resources, departments, nextId>>

\* ------------------------------------------------------------------------
\* Requests
\* ------------------------------------------------------------------------
EmptyData == <<>>

AllIdle == \A v \in Workers : pc[v] = "idle"

Criteria(triples, quantities) ==
    triples
    \cup {[department |-> t.department, location |-> t.location,
           device_name |-> t.device_name, quantity |-> q] :
            t \in triples, q \in quantities}

Payloads(departments_, locations_, quantities) ==
    {[device_name |-> n, quantity |-> q, location |-> l, cost |-> c, department |-> d] :
        n \in DeviceNames, q \in quantities, l \in locations_, c \in Costs,
        d \in departments_}

\* ------------------------------------------------------------------------
\* Spec: creations, previews and hierarchical deletions, requests served one
\* after the other (a request is accepted only when none is in progress).
\* ------------------------------------------------------------------------
CriteriaInputs ==
    Criteria(({[department |-> "Robotics", location |-> l, device_name |-> "Chair"] :
            l \in LocationNames}
            \cup {[department |-> "Architecture", location |-> "Lab-A", device_name |-> "Chair"]}), ({IntVal(q) : q \in 1..MaxQty}
            \cup {StrVal("2"), StrVal("abc"), FloatVal(MaxQty), ListVal}))
    \cup {EmptyData,
          [department |-> "Robotics", location |-> "Lab-A"],
          [department |-> "", location |-> "Lab-A", device_name |-> "Chair"]}

Requests ==
    {[op |-> "preview", data |-> data] : data \in CriteriaInputs}
    \cup {[op |-> "execute", data |-> data] : data \in CriteriaInputs}
    \cup {[op |-> "create", data |-> data] : data \in (Payloads({"Robotics"}, LocationNames, {IntVal(q) : q \in 0..MaxQty})
            \cup {EmptyData,
            [device_name |-> "Chair", quantity |-> IntVal(1), location |-> " ",
            cost |-> 5, department |-> "Robotics"],
            [device_name |-> "Chair", quantity |-> StrVal("abc"), location |-> "Lab-A",
            cost |-> 5, department |-> "Robotics"]})}

Next ==
    \E w \in Workers :
        \/ AllIdle /\ \E request \in Requests : receive(w, request)
        \/ preview_deletion(w)
        \/ execute_find(w)
        \/ execute_delete(w)
        \/ create_validate(w)
        \/ ensure_department_insert(w)
        \/ update_department_locations(w)
        \/ create_serial(w)
        \/ create_insert(w)
        \/ update_department_stats_aggregate(w)
        \/ update_department_stats_write(w)

Spec == Init /\ [][Next]_vars

\* ------------------------------------------------------------------------
\* CrudSpec: every handler that mutates the resource store, requests served
\* one after the other.
\* ------------------------------------------------------------------------
CrudTriple ==
    [department |-> "Architecture", location |-> "Lab-A", device_name |-> "Chair"]

CrudCriteriaInputs == Criteria({CrudTriple}, {IntVal(MaxQty)})

CrudCreateInputs == Payloads({"Architecture"}, {"Lab-A"}, {IntVal(q) : q \in 1..MaxQty})

ResourceIds == 0..MaxId

CrudRequests ==
    {[op |-> "execute", data |-> data] : data \in CrudCriteriaInputs}
    \cup {[op |-> "delete_by_criteria", data |-> data] : data \in CrudCriteriaInputs}
    \cup {[op |-> "delete", resource_id |-> id] : id \in ResourceIds}
    \cup {[op |-> "get", resource_id |-> id] : id \in ResourceIds}
    \cup {[op |-> "create", data |-> data] : data \in CrudCreateInputs}
    \cup {[op |-> "update", resource_id |-> id, data |-> data] :
            id \in ResourceIds, data \in ({[quantity |-> IntVal(MaxQty)], [quantity |-> StrVal("abc")],
                    [department |-> "Robotics"], [department |-> ""],
                    [department |-> "Robotics", location |-> "Lab-B"]})}

CrudNext ==
    \E w \in Workers :
        \/ AllIdle /\ \E request \in CrudRequests : receive(w, request)
        \/ execute_find(w)
        \/ execute_delete(w)
        \/ criteria_find(w)
        \/ criteria_delete(w)
        \/ delete_find(w)
        \/ delete_delete(w)
        \/ get_resource(w)
        \/ create_validate(w)
        \/ create_serial(w)
        \/ create_insert(w)
        \/ update_find(w)
        \/ ensure_department_find(w)
        \/ ensure_department_insert(w)
        \/ update_department_locations(w)
        \/ update_write(w)
        \/ update_refetch(w)
        \/ update_department_stats_aggregate(w)
        \/ update_department_stats_write(w)

CrudSpec == Init /\ [][CrudNext]_vars

\* ------------------------------------------------------------------------
\* ConcSpec: creations and hierarchical deletions on one (department,
\* location, device_name) served concurrently, every store access of one
\* request interleaved with those of the other.
\* ------------------------------------------------------------------------
ConcTriple ==
    [department |-> "Robotics", location |-> "Lab-A", device_name |-> "Chair"]

ConcRequests ==
    {[op |-> "execute", data |-> data] :
        data \in Criteria({ConcTriple}, {IntVal(q) : q \in 1..MaxQty})}
    \cup {[op |-> "create", data |-> data] :
        data \in Payloads({"Robotics"}, {"Lab-A"}, {IntVal(q) : q \in 1..MaxQty})}

ConcNext ==
    \E w \in Workers :
        \/ \E request \in ConcRequests : receive(w, request)
        \/ execute_find(w)
        \/ execute_delete(w)
        \/ create_validate(w)
        \/ ensure_department_insert(w)
        \/ update_department_locations(w)
        \/ create_serial(w)
        \/ create_insert(w)
        \/ update_department_stats_aggregate(w)
        \/ update_department_stats_write(w)

ConcSpec == Init /\ [][ConcNext]_vars

\* ------------------------------------------------------------------------
\* PreviewSpec: previews of one (department, location, device_name) served
\* by both workers at any time, between creations served one at a time; a
\* creation may carry its own sl_no, so records can share one.  find() hands
\* the records out in insertion order and sort('sl_no') keeps that order
\* among equal sl_no.
\* ------------------------------------------------------------------------
PreviewRequests ==
    {[op |-> "preview", data |-> data] :
        data \in Criteria({ConcTriple}, {IntVal(q) : q \in 1..MaxQty})}
    \cup {[op |-> "create", data |-> data] : data \in (Payloads({"Robotics"}, {"Lab-A"}, {IntVal(q) : q \in 1..MaxQty})
            \cup {[device_name |-> "Chair", quantity |-> IntVal(q), location |-> "Lab-A",
            cost |-> 5, department |-> "Robotics", sl_no |-> 1] : q \in 1..MaxQty})}

PreviewNext ==
    \E w \in Workers :
        \/ \E request \in PreviewRequests :
              /\ request.op = "create" => AllIdle
              /\ receive(w, request)
        \/ preview_deletion(w)
        \/ create_validate(w)
        \/ ensure_department_insert(w)
        \/ update_department_locations(w)
        \/ create_serial(w)
        \/ create_insert(w)
        \/ update_department_stats_aggregate(w)
        \/ update_department_stats_write(w)

PreviewSpec == Init /\ [][PreviewNext]_vars


\* ------------------------------------------------------------------------
\* SearchSpec: creations and advanced searches, requests served one after
\* the other.
\* ------------------------------------------------------------------------
MaxPage == 3        \* largest page number a search asks for

SearchFilters ==
    {[sort_by |-> "sl_no"],
     [department |-> "Robotics"],
     [quantity_range |-> [min |-> MaxQty], sort_by |-> "quantity", sort_order |-> "desc"],
     [department |-> "Architecture", location |-> "Lab-B"]}

SearchRequests ==
    {[op |-> "search", data |-> data] : data \in ({EmptyData}
            \cup SearchFilters
            \cup {[k \in DOMAIN f \cup {"page", "per_page"} |->
            IF k = "page" THEN p ELSE IF k = "per_page" THEN n ELSE f[k]] :
            f \in SearchFilters, p \in 0..MaxPage, n \in {0, 1, 2, 250}})}
    \cup {[op |-> "create", data |-> data] : data \in (Payloads(DepartmentNames, {"Lab-A"}, {IntVal(q) : q \in 1..MaxQty}))}

SearchNext ==
    \E w \in Workers :
        \/ AllIdle /\ \E request \in SearchRequests : receive(w, request)
        \/ search_count(w)
        \/ search_find(w)
        \/ search_aggregate(w)
        \/ create_validate(w)
        \/ ensure_department_insert(w)
        \/ update_department_locations(w)
        \/ create_serial(w)
        \/ create_insert(w)
        \/ update_department_stats_aggregate(w)
        \/ update_department_stats_write(w)

SearchSpec == Init /\ [][SearchNext]_vars

\* ------------------------------------------------------------------------
\* CapSpec: advanced searches on a store that earlier creations have filled
\* with more records than one page may carry.
\* ------------------------------------------------------------------------
StockPayload ==
    [device_name |-> "Chair", quantity |-> IntVal(1), location |-> "Lab-A",
     cost |-> 5, department |-> "Architecture"]

\* the store after n creations of StockPayload served one after the other
Stock(n) == [i \in 1..n |-> create_resource_document(StockPayload, i, i)]

StockDepartments(n) ==
    IF n = 0 THEN initialize_departments
    ELSE SetDepartmentStats(
             AddToSetLocation(initialize_departments, StockPayload.department,
                              StockPayload.location),
             StockPayload.department,
             DepartmentStatsPipeline(Stock(n), StockPayload.department))

CapInit ==
    \E n \in {0, 1, 100, 101, 102} :
        /\ resources = Stock(n)
        /\ departments = StockDepartments(n)
        /\ nextId = n + 1
        /\ last_sl_no = n
        /\ pc = [w \in Workers |-> "idle"]
        /\ local = [w \in Workers |-> Idle]
        /\ response = NoResponse
        /\ users = RegisteredUsers
        /\ current_user = [w \in Workers |-> NoUser]

CapRequests == {[op |-> "search", data |-> data] : data \in ({EmptyData, [department |-> "Architecture"]}
        \cup {[page |-> p, per_page |-> n] :
        p \in 0..2, n \in {-101, -1, 0, 1, 100, 101, 250}})}

CapNext ==
    \E w \in Workers :
        \/ AllIdle /\ \E request \in CapRequests : receive(w, request)
        \/ search_count(w)
        \/ search_find(w)
        \/ search_aggregate(w)

CapSpec == CapInit /\ [][CapNext]_vars

\* ------------------------------------------------------------------------
\* IndexSpec: creations, updates, deletions by id and the reads of the
\* hierarchy index, requests served one after the other.
\* ------------------------------------------------------------------------
IndexDepartments == {"Architecture", "Robotics", " Robotics"}

IndexRequests ==
    {[op |-> "create", data |-> data] : data \in (Payloads({"Architecture", " Robotics"}, LocationNames, {IntVal(MaxQty)}))}
    \cup {[op |-> "update", resource_id |-> id, data |-> data] :
            id \in 1..MaxId, data \in ({[department |-> "Robotics"], [location |-> "Lab-B"],
                    [quantity |-> IntVal(0)],
                    [procurement_date |-> IntVal(20240101)],
                    [procurement_date |-> StrVal("2024-01-01")],
                    [procurement_date |-> StrVal("yesterday")]})}
    \cup {[op |-> "delete", resource_id |-> id] : id \in 1..MaxId}
    \cup {[op |-> "filter_options"], [op |-> "departments_for_deletion"]}
    \cup {[op |-> "locations_for_deletion", department_name |-> d] :
            d \in IndexDepartments}
    \cup {[op |-> "locations_for_department", department_name |-> d] :
            d \in IndexDepartments}

IndexNext ==
    \E w \in Workers :
        \/ AllIdle /\ \E request \in IndexRequests : receive(w, request)
        \/ filter_departments(w)
        \/ filter_distinct_locations(w)
        \/ filter_distinct_devices(w)
        \/ filter_stats(w)
        \/ get_departments_for_deletion(w)
        \/ get_locations_for_deletion(w)
        \/ get_locations_for_department(w)
        \/ create_validate(w)
        \/ create_serial(w)
        \/ create_insert(w)
        \/ update_find(w)
        \/ ensure_department_find(w)
        \/ ensure_department_insert(w)
        \/ update_department_locations(w)
        \/ update_write(w)
        \/ update_refetch(w)
        \/ delete_find(w)
        \/ delete_delete(w)
        \/ update_department_stats_aggregate(w)
        \/ update_department_stats_write(w)

IndexSpec == Init /\ [][IndexNext]_vars

\* ------------------------------------------------------------------------
\* AuthSpec: requests arriving at the decorated routes with every kind of
\* Authorization header, served one after the other.
\* ------------------------------------------------------------------------
AuthRequests ==
    {[k \in DOMAIN route \cup {"authorization"} |->
         IF k = "authorization" THEN a ELSE route[k]] :
        route \in ({[op |-> "create", data |-> data] : data \in CrudCreateInputs}
                \cup {[op |-> "update", resource_id |-> 1, data |-> [location |-> "Lab-B"]],
                [op |-> "delete", resource_id |-> 1],
                [op |-> "delete_by_criteria", data |-> CrudTriple],
                [op |-> "preview", data |-> CrudTriple],
                [op |-> "execute", data |-> CrudTriple],
                [op |-> "departments_for_deletion"],
                [op |-> "approve_admin", data |-> [user_id |-> 3]],
                [op |-> "approve_admin", data |-> [user_id |-> 2]]}), a \in ({NoHeader, BasicHeader, BadToken}
                \cup {TokenOf(uid) : uid \in {"root", "guest", "newcomer", "former", "ghost"}})}

AuthNext ==
    \E w \in Workers :
        \/ AllIdle /\ \E request \in AuthRequests : receive_http(w, request)
        \/ require_auth(w)
        \/ approve_find(w)
        \/ approve_approver(w)
        \/ approve_write(w)
        \/ get_departments_for_deletion(w)
        \/ preview_deletion(w)
        \/ execute_find(w)
        \/ execute_delete(w)
        \/ criteria_find(w)
        \/ criteria_delete(w)
        \/ delete_find(w)
        \/ delete_delete(w)
        \/ create_validate(w)
        \/ create_serial(w)
        \/ create_insert(w)
        \/ update_find(w)
        \/ update_department_locations(w)
        \/ update_write(w)
        \/ update_refetch(w)
        \/ update_department_stats_aggregate(w)
        \/ update_department_stats_write(w)

AuthSpec == Init /\ [][AuthNext]_vars

\* ------------------------------------------------------------------------
\* TierSpec: creations, updates that move a record to another department,
\* location or device type, and the reads of the three tiers of the
\* hierarchy, requests served one after the other.
\* ------------------------------------------------------------------------
TierRequests ==
    {[op |-> "create", data |-> data] : data \in (Payloads({"Architecture"}, {"Lab-A"}, {IntVal(MaxQty)}))}
    \cup {[op |-> "update", resource_id |-> id, data |-> data] :
            id \in 1..MaxId, data \in {[department |-> "Robotics"], [location |-> "Lab-B"], [device_name |-> "Desk"]}}
    \cup {[op |-> "filter_options"]}
    \cup {[op |-> "locations_for_deletion", department_name |-> d] :
            d \in DepartmentNames}
    \cup {[op |-> "devices_for_deletion", department_name |-> d, location_name |-> l] :
            d \in DepartmentNames, l \in LocationNames}

TierNext ==
    \E w \in Workers :
        \/ AllIdle /\ \E request \in TierRequests : receive(w, request)
        \/ filter_departments(w)
        \/ filter_distinct_locations(w)
        \/ filter_distinct_devices(w)
        \/ filter_stats(w)
        \/ get_locations_for_deletion(w)
        \/ get_devices_for_deletion(w)
        \/ create_validate(w)
        \/ create_serial(w)
        \/ create_insert(w)
        \/ update_find(w)
        \/ ensure_department_find(w)
        \/ ensure_department_insert(w)
        \/ update_department_locations(w)
        \/ update_write(w)
        \/ update_refetch(w)
        \/ update_department_stats_aggregate(w)
        \/ update_department_stats_write(w)

TierSpec == Init /\ [][TierNext]_vars

\* ------------------------------------------------------------------------
\* RaceSpec: hierarchical deletions and updates of the same records served
\* concurrently, between creations served one at a time.
\* ------------------------------------------------------------------------
RaceRequests ==
    {[op |-> "execute", data |-> data] :
        data \in Criteria({ConcTriple}, {IntVal(1)})}
    \cup {[op |-> "update", resource_id |-> id, data |-> data] :
            id \in 1..MaxId, data \in {[location |-> "Lab-B"], [quantity |-> IntVal(MaxQty)]}}
    \cup {[op |-> "create", data |-> data] :
            data \in Payloads({"Robotics"}, {"Lab-A"}, {IntVal(1)})}

RaceNext ==
    \E w \in Workers :
        \/ \E request \in RaceRequests :
              /\ request.op = "create" => AllIdle
              /\ receive(w, request)
        \/ execute_find(w)
        \/ execute_delete(w)
        \/ update_find(w)
        \/ update_write(w)
        \/ update_refetch(w)
        \/ create_validate(w)
        \/ ensure_department_insert(w)
        \/ update_department_locations(w)
        \/ create_serial(w)
        \/ create_insert(w)
        \/ update_department_stats_aggregate(w)
        \/ update_department_stats_write(w)

RaceSpec == Init /\ [][RaceNext]_vars

\* ------------------------------------------------------------------------
\* DeptSpec: create_department calls and resource creations that register
\* their department, served concurrently by both workers.
\* ------------------------------------------------------------------------
DeptRequests ==
    {[op |-> "create_department", data |-> data] : data \in ({EmptyData}
            \cup {[name |-> n] : n \in {"Robotics", " Robotics", "Architecture", "R", ""}})}
    \cup {[op |-> "create", data |-> data] :
            data \in Payloads({"Robotics", " Robotics"}, {"Lab-A"}, {IntVal(1)})}

DeptNext ==
    \E w \in Workers :
        \/ \E request \in DeptRequests : receive(w, request)
        \/ department_find(w)
        \/ department_insert(w)
        \/ create_validate(w)
        \/ ensure_department_insert(w)
        \/ update_department_locations(w)
        \/ create_serial(w)
        \/ create_insert(w)
        \/ update_department_stats_aggregate(w)
        \/ update_department_stats_write(w)

DeptSpec == Init /\ [][DeptNext]_vars

\* ------------------------------------------------------------------------
\* Properties
\* ------------------------------------------------------------------------
Stepped(w) == pc'[w] # pc[w]

Docs(coll) == {coll[i] : i \in 1..Len(coll)}

StoredIds(coll) == {doc.id : doc \in Docs(coll)}

ListedIds(list) == {list[i].id : i \in 1..Len(list)}

\* the stored records a request's (department, location, device_name) names
TripleDocs(coll, data) ==
    {doc \in Docs(coll) : /\ doc.department = data.department
                          /\ doc.location = data.location
                          /\ doc.device_name = data.device_name}

\* the stored records a request's criteria name, its quantity included
CriteriaDocs(coll, data) ==
    {doc \in TripleDocs(coll, data) :
        Has(data, "quantity") => doc.quantity = ParseInt(data.quantity).v}

\* C1: every step of one Execute call removes 0 or 1 records and the number
\* of stored records drops by exactly that many; the only step that removes
\* a record is the delete-by-id, which a call takes at most once.
C1_AtMostOneDeleted ==
    [][\A w \in Workers :
        (Stepped(w) /\ local[w].op = "execute") =>
            LET removed == StoredIds(resources) \ StoredIds(resources')
            IN  /\ Cardinality(removed) <= 1
                /\ Docs(resources') \subseteq Docs(resources)
                /\ Len(resources') = Len(resources) - Cardinality(removed)
                /\ removed # {} => pc[w] = "execute_delete"
                /\ pc'[w] = "execute_delete" => pc[w] = "execute_find"]_vars

C1_Witness ==
    \E w \in Workers :
        /\ local[w].op = "execute"
        /\ pc[w] = "stats_aggregate"
        /\ resources # <<>>
        /\ ~HasId(resources, local[w].result.deleted_resource.id)

\* C2: Execute without a quantity on a triple that more than one stored
\* record matches deletes nothing, leaves resources and departments as they
\* are, and fails with the list of all matching records, the ones Preview
\* lists for the same criteria.
C2_AmbiguousExecuteDeletesNothing ==
    [][\A w \in Workers :
        LET data == local[w].data
        IN  (/\ pc[w] = "execute_find" /\ Stepped(w)
             /\ CriteriaValid(data) /\ ~Has(data, "quantity")
             /\ Cardinality(TripleDocs(resources, data)) > 1) =>
                /\ resources' = resources
                /\ departments' = departments
                /\ pc'[w] = "idle"
                /\ response'.op = "execute"
                /\ response'.status = 400
                /\ response'.success = FALSE
                /\ Has(response', "matching_resources")
                /\ ListedIds(response'.matching_resources) =
                       {doc.id : doc \in TripleDocs(resources, data)}
                /\ ListedIds(response'.matching_resources) =
                       ListedIds(PreviewResponse(resources, data).matches)]_vars

C2_Witness ==
    /\ response.op = "execute"
    /\ response.status = 400
    /\ Has(response, "matching_resources")
    /\ Len(response.matching_resources) > 1
    /\ Len(resources) > 1

\* C3: Execute with valid criteria that no stored record matches answers 404
\* NotFound carrying the criteria attempted and leaves resources and
\* departments as they are.
C3_NotFoundChangesNothing ==
    [][\A w \in Workers :
        LET data == local[w].data
        IN  (/\ pc[w] = "execute_find" /\ Stepped(w)
             /\ CriteriaValid(data) /\ QuantityValid(data)
             /\ CriteriaDocs(resources, data) = {}) =>
                /\ resources' = resources
                /\ departments' = departments
                /\ pc'[w] = "idle"
                /\ response'.op = "execute"
                /\ response'.status = 404
                /\ response'.success = FALSE
                /\ response'.search_criteria.department = data.department
                /\ response'.search_criteria.location = data.location
                /\ response'.search_criteria.device_name = data.device_name
                /\ Has(response'.search_criteria, "quantity") = Has(data, "quantity")
                /\ Has(data, "quantity") =>
                       response'.search_criteria.quantity = ParseInt(data.quantity).v]_vars

C3_Witness ==
    /\ response.op = "execute"
    /\ response.status = 404
    /\ resources # <<>>
    /\ \E i \in 1..Len(departments) : departments[i].resource_count > 0


\* C8: a Preview request, whatever its input, leaves the resources and the
\* departments collections as they are.
C8_PreviewNeverMutates ==
    [][\A w \in Workers :
        (Stepped(w) /\ (local[w].op = "preview" \/ local'[w].op = "preview")) =>
            /\ resources' = resources
            /\ departments' = departments]_vars

C8_Witness ==
    /\ response.op = "preview"
    /\ response.status = 200
    /\ response.found
    /\ response.deletion_ready
    /\ Len(resources) > 1

\* C9: when N > 1 stored records share the triple with pairwise distinct
\* quantities, Preview without quantity lists all N and asks for a quantity;
\* Preview with one of those quantities lists exactly the record having it
\* and does not ask for a quantity.
DistinctQuantities(docs) ==
    \A d1, d2 \in docs : d1.id # d2.id => d1.quantity # d2.quantity

C9_DisambiguationComplete ==
    [][\A w \in Workers :
        LET data == local[w].data
            docs == TripleDocs(resources, data)
        IN  (/\ pc[w] = "preview_deletion" /\ Stepped(w)
             /\ CriteriaValid(data) /\ QuantityValid(data)
             /\ Cardinality(docs) > 1 /\ DistinctQuantities(docs)) =>
                IF ~Has(data, "quantity") THEN
                    /\ response'.op = "preview"
                    /\ response'.found
                    /\ response'.summary.requires_quantity_selection
                    /\ Len(response'.matches) = Cardinality(docs)
                    /\ ListedIds(response'.matches) = {doc.id : doc \in docs}
                ELSE
                    (\E doc \in docs : doc.quantity = ParseInt(data.quantity).v) =>
                        /\ response'.op = "preview"
                        /\ response'.found
                        /\ ~response'.summary.requires_quantity_selection
                        /\ Len(response'.matches) = 1
                        /\ ListedIds(response'.matches) =
                               {doc.id : doc \in CriteriaDocs(resources, data)}]_vars

C9_Witness ==
    /\ response.op = "preview"
    /\ response.status = 200
    /\ response.found
    /\ Has(response.search_criteria, "quantity")
    /\ Len(response.matches) = 1
    /\ Cardinality(TripleDocs(resources, response.search_criteria)) > 1
    /\ DistinctQuantities(TripleDocs(resources, response.search_criteria))

\* C10: in every Preview result deletion_ready is true exactly when
\* requires_quantity_selection is not true and at least one record matches;
\* it is not true when nothing matches and false when several records match
\* and no quantity was given.
IsTrue(r, field) == Has(r, field) /\ r[field]

C10_DeletionReadyIff ==
    [][\A w \in Workers :
        LET data == local[w].data
        IN  (pc[w] = "preview_deletion" /\ Stepped(w)) =>
                LET matched ==
                        /\ DOMAIN data # {} /\ CriteriaValid(data) /\ QuantityValid(data)
                        /\ CriteriaDocs(resources, data) # {}
                    selection ==
                        Has(response', "summary")
                            /\ response'.summary.requires_quantity_selection
                IN  /\ response'.op = "preview"
                    /\ IsTrue(response', "deletion_ready") <=> (~selection /\ matched)
                    /\ ~matched => ~IsTrue(response', "deletion_ready")
                    /\ (matched /\ ~Has(data, "quantity")
                            /\ Cardinality(CriteriaDocs(resources, data)) > 1) =>
                           /\ Has(response', "deletion_ready")
                           /\ response'.deletion_ready = FALSE]_vars

C10_Witness ==
    /\ response.op = "preview"
    /\ response.status = 200
    /\ response.found
    /\ response.summary.requires_quantity_selection
    /\ ~response.deletion_ready


\* C4: when two Execute calls have resolved the same record, the one whose
\* delete-by-id finds the record removes exactly it, and the one whose
\* delete-by-id removes nothing answers 404 NotFound, not a server failure.
C4_LostRaceIsNotFound ==
    [][\A w \in Workers :
        (pc[w] = "execute_delete" /\ Stepped(w)) =>
            IF HasId(resources, local[w].resource_id)
            THEN StoredIds(resources') = StoredIds(resources) \ {local[w].resource_id}
            ELSE /\ resources' = resources
                 /\ response'.op = "execute"
                 /\ response'.status = 404]_vars

\* C5: whenever no request is in progress, every registered Department
\* caches the sum of quantity and the sum of cost*quantity of the resources
\* stored under its name.
StatsMatch(department) ==
    LET docs == SelectSeq(resources, LAMBDA doc : doc.department = department.name)
    IN  /\ department.resource_count = SumQuantity(docs)
        /\ department.total_cost = SumValue(docs)

C5_StatsConsistentWhenIdle ==
    AllIdle => \A i \in 1..Len(departments) : StatsMatch(departments[i])

\* C6: once all concurrently served mutations have completed, the
\* Department's cached resource_count and total_cost equal the aggregation
\* over the resources then stored.
C6_StatsConsistentAfterConcurrency ==
    AllIdle => \A i \in 1..Len(departments) :
        departments[i].name = ConcTriple.department => StatsMatch(departments[i])

\* C7: the delete step of Execute removes no record but the one whose id its
\* own find step resolved, and no record inserted while the call waits
\* between the two steps carries that id.
C7_DeletesResolvedIdOnly ==
    [][\A w \in Workers :
        /\ (pc[w] = "execute_delete" /\ Stepped(w)) =>
              /\ StoredIds(resources) \ StoredIds(resources') \subseteq
                     {local[w].resource_id}
              /\ Docs(resources') \subseteq Docs(resources)
        /\ pc[w] = "execute_delete" =>
              local[w].resource_id \notin StoredIds(resources') \ StoredIds(resources)]_vars

\* an Execute without quantity has deleted its record while a record created
\* after its find step, matching the same criteria, is still stored
C7_Witness ==
    \E w \in Workers :
        /\ local[w].op = "execute"
        /\ pc[w] = "stats_aggregate"
        /\ ~Has(local[w].result.deletion_criteria, "quantity")
        /\ ~HasId(resources, local[w].result.deleted_resource.id)
        /\ \E doc \in Docs(resources) :
              /\ Matches(doc, local[w].result.deletion_criteria)
              /\ doc.id > local[w].result.deleted_resource.id

AsCriteria(search_criteria) ==
    IF Has(search_criteria, "quantity")
    THEN [department |-> search_criteria.department,
          location |-> search_criteria.location,
          device_name |-> search_criteria.device_name,
          quantity |-> IntVal(search_criteria.quantity)]
    ELSE search_criteria

OwnCriteria(doc) ==
    [department |-> doc.department, location |-> doc.location,
     device_name |-> doc.device_name, quantity |-> IntVal(doc.quantity)]

C12_DeletedIsGoneOthersStay ==
    [][\A w \in Workers :
        (/\ pc[w] = "execute_delete" /\ Stepped(w)
         /\ HasId(resources, local[w].resource_id)
         /\ Len(find(resources, local[w].search_criteria)) = 1) =>
            /\ pc'[w] = "stats_aggregate"
            /\ local'[w].result.status = 200
            /\ local'[w].result.success
            /\ ~PreviewResponse(resources', AsCriteria(local[w].search_criteria)).found
            /\ \A doc \in Docs(resources) :
                  doc.id # local[w].resource_id =>
                      /\ doc \in Docs(resources')
                      /\ PreviewResponse(resources', OwnCriteria(doc)).found
                      /\ doc.id \in ListedIds(
                             PreviewResponse(resources', OwnCriteria(doc)).matches)]_vars

\* an Execute with a quantity has deleted its record and a record of the
\* same triple with another quantity is still stored
C12_Witness ==
    \E w \in Workers :
        /\ local[w].op = "execute"
        /\ pc[w] = "stats_aggregate"
        /\ Has(local[w].result.deletion_criteria, "quantity")
        /\ find(resources, local[w].result.deletion_criteria) = <<>>
        /\ \E doc \in Docs(resources) :
              /\ Matches(doc, SearchCriteriaNoQuantity(local[w].result.deletion_criteria))
              /\ doc.quantity # local[w].result.deletion_criteria.quantity

\* C13: a Preview or an Execute whose department, location or device_name is
\* missing or empty, or whose quantity is not an integer value (a string
\* that is no integer, a number with a fractional part, an array), answers
\* 400 and leaves the store alone, whatever the store holds.
NotIntegerValue(raw) ==
    \/ Has(raw, "float")
    \/ Has(raw, "list")
    \/ Has(raw, "str") /\ ~ParseInt(raw).ok

C13_InvalidCriteriaRejected ==
    [][\A w \in Workers :
        LET data == local[w].data
        IN  (/\ pc[w] \in {"preview_deletion", "execute_find"} /\ Stepped(w)
             /\ \/ ~CriteriaValid(data)
                \/ Has(data, "quantity") /\ NotIntegerValue(data.quantity)) =>
                /\ response'.status = 400
                /\ pc'[w] = "idle"
                /\ resources' = resources
                /\ departments' = departments]_vars

\* C14: for a search with per_page in 1..100 and page >= 1, total_count is
\* the number of stored records matching the filter, total_pages is
\* ceil(total_count / per_page), has_next is page < total_pages, has_prev is
\* page > 1, and the numbers of records advanced_search returns for pages
\* 1..total_pages of the same filter on the same store sum to total_count.
Ceil(n, d) == CHOOSE k \in 0..n : k * d >= n /\ (k - 1) * d < n

AtPage(data, p) ==
    [k \in DOMAIN data \cup {"page"} |-> IF k = "page" THEN p ELSE data[k]]

RECURSIVE SumPageSizes(_, _, _)
SumPageSizes(coll, data, pages) ==
    IF pages = 0 THEN 0
    ELSE Len(FindPage(coll, AtPage(data, pages))) + SumPageSizes(coll, data, pages - 1)

C14_PagesSumToTotal ==
    [][\A w \in Workers :
        LET data == local[w].data
        IN  (/\ pc[w] = "search_aggregate" /\ Stepped(w)
             /\ PerPage(data) \in 1..100 /\ Page(data) >= 1) =>
                LET total_count ==
                        Cardinality({doc \in Docs(resources) : QueryFilterMatches(doc, data)})
                    total_pages == Ceil(total_count, PerPage(data))
                IN  /\ response'.status = 200
                    /\ response'.pagination.total_count = total_count
                    /\ response'.pagination.total_pages = total_pages
                    /\ response'.pagination.has_next = (Page(data) < total_pages)
                    /\ response'.pagination.has_prev = (Page(data) > 1)
                    /\ response'.resources = FindPage(resources, data)
                    /\ SumPageSizes(resources, data, total_pages) = total_count]_vars

\* a search has returned the second of two pages
C14_Witness ==
    /\ response.op = "search"
    /\ response.status = 200
    /\ response.pagination.total_pages = 2
    /\ response.pagination.page = 2
    /\ response.pagination.has_prev
    /\ ~response.pagination.has_next
    /\ Len(response.resources) = 1

\* C15: the search_summary of a search is computed over every stored record
\* matching the filter, whatever page is asked for, a page beyond the last
\* one included: total_cost is the sum of cost*quantity, total_quantity the
\* sum of quantity; every counter is 0 when nothing matches.
C15_SummaryOverWholeMatch ==
    [][\A w \in Workers :
        LET data == local[w].data
        IN  (/\ pc[w] = "search_aggregate" /\ Stepped(w)
             /\ PerPage(data) \in 1..100 /\ Page(data) >= 1) =>
                LET matched == FindFiltered(resources, data)
                    summary == response'.search_summary
                IN  /\ response'.status = 200
                    /\ summary.total_cost = SumValue(matched)
                    /\ summary.total_quantity = SumQuantity(matched)
                    /\ \A p \in 1..(MaxPage + 1) :
                          SearchSummary(resources, AtPage(data, p)) = summary
                    /\ matched = <<>> =>
                          /\ summary.total_cost = 0
                          /\ summary.total_quantity = 0
                          /\ summary.average_cost.num = 0
                          /\ summary.departments_count = 0
                          /\ summary.locations_count = 0
                          /\ summary.device_types_count = 0]_vars

\* a search for a page beyond the last one returned no record and the
\* summary of the two records that match
C15_Witness ==
    /\ response.op = "search"
    /\ response.status = 200
    /\ response.pagination.page > response.pagination.total_pages
    /\ response.resources = <<>>
    /\ response.pagination.total_count = 2
    /\ response.search_summary.total_quantity > 0
    /\ response.search_summary.total_cost = 5 * response.search_summary.total_quantity

\* C16: whenever get_filter_options or get_departments_for_deletion answers,
\* every department name carried by a stored resource is the name of one of
\* the department nodes it returns.
ListedNames(list) == {list[i].name : i \in 1..Len(list)}

C16_EveryOwningDepartmentListed ==
    [][\A w \in Workers :
        (/\ Stepped(w) /\ pc'[w] = "idle"
         /\ local[w].op \in {"filter_options", "departments_for_deletion"}) =>
            /\ response'.status = 200
            /\ \A doc \in Docs(resources) :
                  doc.department \in ListedNames(response'.departments)]_vars

\* C17: get_locations_for_deletion and get_locations_for_department answer
\* for a department D with one entry per distinct location of the stored
\* resources of D, in ascending order of name, each with resource_count the
\* sum of quantity and device_types_count the number of distinct
\* device_name of the records at that location, and with an empty list when
\* D has no resource.
C17_LocationTier ==
    [][\A w \in Workers :
        (/\ Stepped(w) /\ pc'[w] = "idle"
         /\ local[w].op \in {"locations_for_deletion", "locations_for_department"}) =>
            LET docs == {doc \in Docs(resources) :
                            doc.department = local[w].department_name}
                locations == response'.locations
            IN  /\ response'.status = 200
                /\ ListedNames(locations) = {doc.location : doc \in docs}
                /\ Len(locations) = Cardinality({doc.location : doc \in docs})
                /\ \A i, j \in 1..Len(locations) :
                      i < j => NameRank(locations[i].name) < NameRank(locations[j].name)
                /\ \A i \in 1..Len(locations) :
                      LET at == SelectSeq(resources, LAMBDA doc :
                                    /\ doc.department = local[w].department_name
                                    /\ doc.location = locations[i].name)
                      IN  /\ locations[i].resource_count = SumQuantity(at)
                          /\ locations[i].device_types_count =
                                 Cardinality({at[k].device_name : k \in 1..Len(at)})]_vars

\* C18: a Preview or an Execute whose criteria name a department that is not
\* registered answers with an outcome other than the one it gives for a
\* registered department in which no record matches (Preview: found = false
\* with no matches; Execute: 404 "No resources found"), the echoed
\* search_criteria set aside.
Outcome(r) == [k \in DOMAIN r \ {"search_criteria"} |-> r[k]]

C18_UnregisteredDepartmentDistinct ==
    [][\A w \in Workers :
        LET data == local[w].data
        IN  (/\ pc[w] \in {"preview_deletion", "execute_find"} /\ Stepped(w)
             /\ CriteriaValid(data) /\ QuantityValid(data)
             /\ ~HasName(departments, data.department)) =>
                \A i \in 1..Len(departments) :
                    LET registered == [data EXCEPT !.department = departments[i].name]
                    IN  CriteriaDocs(resources, registered) = {} =>
                            IF pc[w] = "preview_deletion"
                            THEN Outcome(response') #
                                     Outcome(PreviewResponse(resources, registered))
                            ELSE ~(/\ response'.status = 404
                                   /\ response'.error =
                                        "No resources found matching the specified criteria")]_vars

\* C19: a request whose Authorization header carries no valid token is
\* answered 401 by the decorator and enters no handler; a request to
\* create_resource, update_resource, delete_resource,
\* delete_resource_by_criteria, preview_deletion or
\* execute_hierarchical_deletion enters its handler only when the account
\* of its token is registered, active and an admin, and is answered 401 or
\* 403 otherwise; every step that changes the resources collection is taken
\* by a worker serving an account that is active and an admin.
AdminRoutes ==
    {"create", "update", "delete", "delete_by_criteria", "preview", "execute"}

ActiveAdmin(uid) ==
    \E i \in 1..Len(users) :
        /\ users[i].uid = uid
        /\ users[i].status = "active"
        /\ users[i].role = "admin"

ValidToken(authorization) == authorization.scheme = "Bearer" /\ authorization.valid

C19_OnlyActiveAdminsMutate ==
    [][/\ \A w \in Workers :
            (pc[w] = "require_auth" /\ Stepped(w)) =>
                LET authorization == local[w].authorization
                IN  /\ resources' = resources
                    /\ departments' = departments
                    /\ ~ValidToken(authorization) =>
                          /\ pc'[w] = "idle"
                          /\ response'.status = 401
                    /\ local[w].op \in AdminRoutes =>
                          IF ValidToken(authorization) /\ ActiveAdmin(authorization.uid)
                          THEN /\ pc'[w] = FirstStep(local[w].op)
                               /\ current_user'[w].uid = authorization.uid
                          ELSE /\ pc'[w] = "idle"
                               /\ response'.status \in {401, 403}
       /\ resources' # resources =>
            \E w \in Workers :
                /\ Stepped(w)
                /\ local[w].op \in AdminRoutes
                /\ ActiveAdmin(current_user[w].uid)]_vars

\* the viewer's request to an admin route has been refused while the store
\* holds a record an administrator created
C19_Witness ==
    /\ response.op \in AdminRoutes
    /\ response.status = 403
    /\ response.error = "Access denied. Admin role required"
    /\ resources # <<>>
    /\ \E w \in Workers : current_user[w].uid = "newcomer"

\* C20: the delete step of delete_resource(id) removes the record of that id
\* and no other, leaving every other record as it was; when delete_resource
\* reports success the record is absent and get_resource(id) answers 404;
\* delete_resource on a well-formed id that is not stored answers 404 and
\* changes neither resources nor departments.
C20_DeleteByIdRemovesExactlyIt ==
    [][\A w \in Workers :
        /\ (pc[w] = "delete_delete" /\ Stepped(w)
                /\ HasId(resources, local[w].resource_id)) =>
              /\ Len(resources') = Len(resources) - 1
              /\ Docs(resources') =
                     Docs(resources) \ {find_one(resources, local[w].resource_id)}
              /\ resources' = SelectSeq(resources,
                                         LAMBDA doc : doc.id # local[w].resource_id)
        /\ (Stepped(w) /\ local[w].op = "delete" /\ pc[w] # "delete_delete") =>
              resources' = resources
        /\ (Stepped(w) /\ response'.op = "delete" /\ response'.status = 200) =>
              /\ ~HasId(resources', response'.deleted_resource.id)
              /\ GetResourceResponse(resources', response'.deleted_resource.id).status
                     = 404
        /\ (pc[w] = "delete_find" /\ Stepped(w)
                /\ ObjectIdIsValid(local[w].resource_id)
                /\ ~HasId(resources, local[w].resource_id)) =>
              /\ response'.op = "delete"
              /\ response'.status = 404
              /\ resources' = resources
              /\ departments' = departments]_vars

\* delete_resource has reported success for one of two stored records
C20_Witness ==
    /\ response.op = "delete"
    /\ response.status = 200
    /\ Len(resources) = 1
    /\ nextId = 3
    /\ ~HasId(resources, response.deleted_resource.id)

\* C21: no two documents of the departments collection carry the same name,
\* and a create_department call whose (stripped) name is already registered
\* when it answers or inserts answers 409 and leaves departments unchanged.
UniqueNames(coll) ==
    \A i, j \in 1..Len(coll) : coll[i].name = coll[j].name => i = j

C21_DepartmentNamesUnique ==
    [][/\ UniqueNames(departments')
       /\ \A w \in Workers :
            (/\ Stepped(w)
             /\ pc[w] \in {"department_find", "department_insert"}
             /\ DOMAIN local[w].data # {}
             /\ validate_department_data(local[w].data)
             /\ HasName(departments, Strip(local[w].data.name))) =>
                /\ response'.op = "create_department"
                /\ response'.status = 409
                /\ departments' = departments]_vars

\* C22: an Execute that carries a valid quantity and whose (department,
\* location, device_name, quantity) is shared by k > 1 stored records
\* resolves to the first of them in the order the store hands records out,
\* deletes that record and no other, reports success, and leaves the other
\* k - 1 records of the criteria stored.
FirstInStore(coll, data) ==
    coll[CHOOSE i \in 1..Len(coll) :
            /\ coll[i] \in CriteriaDocs(coll, data)
            /\ \A j \in 1..(i - 1) : coll[j] \notin CriteriaDocs(coll, data)]

C22_DuplicatesResolveToFirst ==
    [][\A w \in Workers :
        /\ (/\ pc[w] = "execute_find" /\ Stepped(w)
            /\ DOMAIN local[w].data # {}
            /\ CriteriaValid(local[w].data)
            /\ Has(local[w].data, "quantity")
            /\ ParseInt(local[w].data.quantity).ok
            /\ Cardinality(CriteriaDocs(resources, local[w].data)) > 1) =>
               /\ pc'[w] = "execute_delete"
               /\ local'[w].resource_id = FirstInStore(resources, local[w].data).id
        /\ (/\ pc[w] = "execute_delete" /\ Stepped(w)
            /\ Has(local[w].search_criteria, "quantity")
            /\ Len(find(resources, local[w].search_criteria)) > 1) =>
               LET data == AsCriteria(local[w].search_criteria)
                   k == Cardinality(CriteriaDocs(resources, data))
                   first == FirstInStore(resources, data)
               IN  /\ local[w].resource_id = first.id
                   /\ Docs(resources') = Docs(resources) \ {first}
                   /\ Len(resources') = Len(resources) - 1
                   /\ Cardinality(CriteriaDocs(resources', data)) = k - 1
                   /\ local'[w].result.status = 200
                   /\ local'[w].result.success
                   /\ local'[w].result.deleted_resource.id = first.id]_vars

\* an Execute with a quantity has succeeded on two records of one quantity:
\* the older one is gone, the newer one is stored
C22_Witness ==
    /\ response.op = "execute"
    /\ response.status = 200
    /\ Has(response.deletion_criteria, "quantity")
    /\ response.deleted_resource.id = 1
    /\ Len(resources) = 1
    /\ resources[1].id = 2
    /\ Matches(resources[1], response.deletion_criteria)

\* C23: every record of the resource store has quantity >= 1, whatever
\* creations, updates and deletions have run.
C23_QuantityPositive ==
    \A doc \in Docs(resources) : doc.quantity >= 1

\* C24: the record a creation stores carries sl_no = 1 + the largest sl_no
\* stored when it is inserted (1 when the store is empty), and that sl_no is
\* larger than the one the creation before it stored.
C24_SerialNumbersIncrease ==
    [][\A w \in Workers :
        (pc[w] = "create_insert" /\ Stepped(w)) =>
            LET created == resources'[Len(resources')]
            IN  /\ created.sl_no = NextSlNo(resources)
                /\ created.sl_no > last_sl_no]_vars

\* C25: whatever per_page a search carries, an answer of advanced_search
\* lists at most 100 resources and reports a per_page of at most 100.
C25_PerPageCapped ==
    (response.op = "search" /\ response.status = 200) =>
        /\ Len(response.resources) <= 100
        /\ response.pagination.per_page <= 100

\* C26: on every store state the three tiers add up: for every department D
\* the resource_count of D's location entries sum to D's total_resources
\* of the department tier, and for every location L of D the total_quantity
\* of the device entries of (D, L) sum to the resource_count of L's
\* location entry and their resource_entries to the number of records
\* stored at (D, L).
RECURSIVE SumField(_, _)
SumField(entries, field) ==
    IF entries = <<>> THEN 0
    ELSE Head(entries)[field] + SumField(Tail(entries), field)

LocationEntry(coll, department_name, location_name) ==
    LET entries == SelectSeq(LocationGroups(coll, department_name),
                             LAMBDA e : e.name = location_name)
    IN  IF entries = <<>> THEN [resource_count |-> 0, resource_entries |-> 0]
        ELSE entries[1]

C26_TiersRollUp ==
    \A d \in IndexDepartments :
        /\ SumField(LocationGroups(resources, d), "resource_count")
               = FilterStats(resources, d).total_resources
        /\ \A l \in LocationNames :
              LET devices == DeviceGroups(resources, d, l)
              IN  /\ SumField(devices, "total_quantity")
                         = LocationEntry(resources, d, l).resource_count
                  /\ SumField(devices, "resource_entries")
                         = Cardinality({doc \in Docs(resources) :
                               doc.department = d /\ doc.location = l})

\* get_devices_for_deletion has answered with two device types at one
\* location, and the department has records at two locations or two
\* records at that one
C26_Witness ==
    /\ response.op = "devices_for_deletion"
    /\ response.status = 200
    /\ Len(response.devices) = 2
    /\ SumField(response.devices, "total_quantity") > 2

\* C27: when a Preview of the criteria on the store an Execute works on
\* reports deletion_ready, the Execute resolves to a record the Preview
\* lists, removes that record and no other and reports success; when the
\* Preview reports requires_quantity_selection, the Execute answers 400 and
\* removes nothing.
PreviewOf(w) ==
    PreviewResponse(resources,
                    IF pc[w] = "execute_find" THEN local[w].data
                    ELSE AsCriteria(local[w].search_criteria))

C27_PreviewPredictsExecute ==
    [][\A w \in Workers :
        /\ (/\ pc[w] = "execute_find" /\ Stepped(w)
            /\ IsTrue(PreviewOf(w), "deletion_ready")) =>
               /\ pc'[w] = "execute_delete"
               /\ local'[w].resource_id \in ListedIds(PreviewOf(w).matches)
               /\ resources' = resources
        /\ (/\ pc[w] = "execute_delete" /\ Stepped(w)
            /\ IsTrue(PreviewOf(w), "deletion_ready")) =>
               /\ local[w].resource_id \in ListedIds(PreviewOf(w).matches)
               /\ Len(resources') = Len(resources) - 1
               /\ Docs(resources') =
                      Docs(resources) \ {find_one(resources, local[w].resource_id)}
               /\ local'[w].result.status = 200
               /\ local'[w].result.success
        /\ (/\ pc[w] = "execute_find" /\ Stepped(w)
            /\ Has(PreviewOf(w), "summary")
            /\ PreviewOf(w).summary.requires_quantity_selection) =>
               /\ pc'[w] = "idle"
               /\ response'.op = "execute"
               /\ response'.status = 400
               /\ resources' = resources]_vars

\* an Execute without a quantity has removed the one record of its triple
\* and a record of another triple is still stored
C27_Witness ==
    /\ response.op = "execute"
    /\ response.status = 200
    /\ ~Has(response.deletion_criteria, "quantity")
    /\ Len(resources) = 1
    /\ ~Matches(resources[1], response.deletion_criteria)

\* C28: the record the delete-by-id step of an Execute removes matches the
\* Execute's criteria (department, location, device_name and, when given,
\* quantity) in the store it is removed from.
C28_RemovedRecordMatchesCriteria ==
    [][\A w \in Workers :
        (/\ pc[w] = "execute_delete" /\ Stepped(w)
         /\ HasId(resources, local[w].resource_id)) =>
            Matches(find_one(resources, local[w].resource_id),
                    local[w].search_criteria)]_vars

\* C29: no two records of the resource store carry the same sl_no.
C29_SerialNumbersUnique ==
    \A i, j \in 1..Len(resources) :
        resources[i].sl_no = resources[j].sl_no => i = j

\* C30: for every stored resource r a Department named r.department is
\* registered and r.location is a member of its locations set.
C30_LocationsCoverResources ==
    \A doc \in Docs(resources) :
        /\ HasName(departments, doc.department)
        /\ doc.location \in
               departments[FirstIndex(departments, doc.department)].locations

====
